---- MODULE Spec2Model ----
(***************************************************************************)
(* WorldQuest question engine: metric extraction, AI draft validation and  *)
(* repair, choice-precision normalisation, the template (fallback)         *)
(* generator and the per-country question pool.                            *)
(*                                                                         *)
(* Text is a sequence of characters, each character a string; a character  *)
(* outside ASCII is written as a bracketed token ("<o^>", "<EUR>", "<GBP>",*)
(* "<^2>").  Numbers that Python holds as floats are fixed-point integers  *)
(* counted in units of 1/Unit (four decimals), which is exact for dataset  *)
(* values with at most two decimals multiplied by the two-decimal          *)
(* percentages of the code; binary representation error is not modelled.   *)
(***************************************************************************)
EXTENDS Integers, Sequences, FiniteSets, TLC

\* ---------------------------------------------------------- evaluation

\* Body(value) with value computed once: a Python local variable
Bind(value, Body(_)) == CHOOSE result \in {Body(v) : v \in {value}} : TRUE

\* a sequence with its elements computed: a Python list
Eager(s) == s \o << >>

\* the least element of a non-empty set of integers
Least(S) == CHOOSE x \in S : \A y \in S : x <= y

\* ------------------------------------------------------------------ text

LowerAlpha == <<"a","b","c","d","e","f","g","h","i","j","k","l","m","n","o","p","q","r","s","t","u","v","w","x","y","z">> \o <<"<o^>">>

UpperAlpha == <<"A","B","C","D","E","F","G","H","I","J","K","L","M","N","O","P","Q","R","S","T","U","V","W","X","Y","Z">> \o <<"<O^>">>

Digits == <<"0","1","2","3","4","5","6","7","8","9">>

InSeq(c, s) == \E i \in 1..Len(s) : s[i] = c

PosIn(c, s) == CHOOSE i \in 1..Len(s) : s[i] = c

IsDigit(c) == InSeq(c, Digits)

DigitVal(c) == PosIn(c, Digits) - 1

IsCased(c) == InSeq(c, LowerAlpha) \/ InSeq(c, UpperAlpha)

LowerCh(c) == IF InSeq(c, UpperAlpha) THEN LowerAlpha[PosIn(c, UpperAlpha)] ELSE c

UpperCh(c) == IF InSeq(c, LowerAlpha) THEN UpperAlpha[PosIn(c, LowerAlpha)] ELSE c

\* str.lower(), str.upper()
Lower(s) == [i \in 1..Len(s) |-> LowerCh(s[i])]

Upper(s) == [i \in 1..Len(s) |-> UpperCh(s[i])]

\* str.title(): a cased character is upper-cased when it does not follow a
\* cased character and lower-cased when it does.
Title(s) == [i \in 1..Len(s) |->
               IF i > 1 /\ IsCased(s[i-1]) THEN LowerCh(s[i]) ELSE UpperCh(s[i])]

\* str.replace(a, b) for single characters
ReplaceCh(s, a, b) == [i \in 1..Len(s) |-> IF s[i] = a THEN b ELSE s[i]]

\* Python's  k in s  for strings
IsSubstr(k, s) == \E i \in 0..(Len(s) - Len(k)) : \A j \in 1..Len(k) : s[i + j] = k[j]

StartsWith(s, p) == Len(s) >= Len(p) /\ SubSeq(s, 1, Len(p)) = p

IsSpace(c) == c = " "

RECURSIVE LStrip(_)
LStrip(s) == IF s # << >> /\ IsSpace(Head(s)) THEN LStrip(Tail(s)) ELSE s

RECURSIVE RStrip(_)
RStrip(s) == IF s # << >> /\ IsSpace(s[Len(s)]) THEN RStrip(SubSeq(s, 1, Len(s) - 1)) ELSE s

\* str.strip()
Strip(s) == RStrip(LStrip(s))

\* re.sub(r'[...]', '', s): the characters of the class removed
RemoveChars(s, class) == SelectSeq(s, LAMBDA c : c \notin class)

\* the length of the run of digits of s that starts at position j
RECURSIVE DigitRun(_, _)
DigitRun(s, j) == IF j <= Len(s) /\ IsDigit(s[j]) THEN 1 + DigitRun(s, j + 1) ELSE 0

RECURSIVE Pow10(_)
Pow10(n) == IF n = 0 THEN 1 ELSE 10 * Pow10(n - 1)

\* int(digits) of a (possibly empty) run of digits
RECURSIVE DigitsToInt(_)
DigitsToInt(ds) == IF ds = << >> THEN 0
                   ELSE 10 * DigitsToInt(SubSeq(ds, 1, Len(ds) - 1)) + DigitVal(ds[Len(ds)])

\* str(n) of a natural number
RECURSIVE NatToStr(_)
NatToStr(n) == IF n < 10 THEN <<Digits[n + 1]>>
               ELSE NatToStr(n \div 10) \o <<Digits[(n % 10) + 1]>>

\* str(n) of an integer
IntToStr(n) == IF n < 0 THEN <<"-">> \o NatToStr(0 - n) ELSE NatToStr(n)

\* n zero-padded on the left to w digits
RECURSIVE PadNat(_, _)
PadNat(n, w) == IF w = 0 THEN << >> ELSE PadNat(n \div 10, w - 1) \o <<Digits[(n % 10) + 1]>>

\* the digits of n with a comma before every group of three (format's "," option)
RECURSIVE GroupThousands(_)
GroupThousands(n) == IF n < 1000 THEN NatToStr(n)
                     ELSE GroupThousands(n \div 1000) \o <<",">> \o PadNat(n % 1000, 3)

RECURSIVE Concat(_)
Concat(ss) == IF ss = << >> THEN << >> ELSE Head(ss) \o Concat(Tail(ss))

\* the elements of a sequence, as a set
Range(s) == {s[i] : i \in 1..Len(s)}

\* --------------------------------------------------------------- numbers

\* A float x is held as the integer x * Unit.
Unit == 100 * 100

Abs(x) == IF x < 0 THEN 0 - x ELSE x

Max(a, b) == IF a >= b THEN a ELSE b

Min(a, b) == IF a <= b THEN a ELSE b

\* x rounded to a multiple of step, halves to the even multiple: what Python's
\* round() and the "f" format do with an exactly representable value.
RoundHalfEven(x, step) ==
    LET a == Abs(x)
        q == a \div step
        r == a % step
        up == (2 * r > step) \/ (2 * r = step /\ q % 2 = 1)
        m == (IF up THEN q + 1 ELSE q) * step
    IN  IF x < 0 THEN 0 - m ELSE m

\* float(text) of digits "." digits; digits after the fourth decimal are dropped
ParseFloat(intDigits, fracDigits) ==
    DigitsToInt(intDigits) * Unit + DigitsToInt(SubSeq(fracDigits \o <<"0","0","0","0">>, 1, 4))

\* A format specifier of the metric catalog: "{:.1f}" is
\* [prefix |-> "", comma |-> FALSE, decimals |-> 1], "${:,.0f}" is
\* [prefix |-> "$", comma |-> TRUE, decimals |-> 0].
\* FormatNum is format_str.format(val).
FormatNum(val, fmt) ==
    LET step == Unit \div Pow10(fmt.decimals)
        m == Abs(RoundHalfEven(val, step)) \div step
        ip == m \div Pow10(fmt.decimals)
        fp == m % Pow10(fmt.decimals)
    IN  fmt.prefix
        \o (IF val < 0 THEN <<"-">> ELSE << >>)
        \o (IF fmt.comma THEN GroupThousands(ip) ELSE NatToStr(ip))
        \o (IF fmt.decimals > 0 THEN <<".">> \o PadNat(fp, fmt.decimals) ELSE << >>)

\* f"{val:.1f}"
FormatOneDecimal(val) == FormatNum(val, [prefix |-> << >>, comma |-> FALSE, decimals |-> 1])

\* ---------------------------------------------------------------- tables

\* ai_generator.py, INTERESTING_METRICS (lines 26-99), in list order
INTERESTING_METRICS == <<
    <<"l","i","f","e","_","e","x","p","e","c","t","a","n","c","y","_","f","e","m","a","l","e">>,
    <<"l","i","f","e","_","e","x","p","e","c","t","a","n","c","y","_","m","a","l","e">>,
    <<"m","e","d","i","a","n","_","a","g","e","_","y","e","a","r","s">>,
    <<"p","o","p","u","l","a","t","i","o","n","_","d","e","n","s","i","t","y","_","p","e","r","_","s","q","u","a","r","e","_","k","m">>,
    <<"u","r","b","a","n","_","p","o","p","u","l","a","t","i","o","n","_","p","e","r","c","e","n","t","_","o","f","_","t","o","t","a","l">>,
    <<"p","o","p","u","l","a","t","i","o","n","_","g","r","o","w","t","h","_","a","n","n","u","a","l","_","p","e","r","c","e","n","t">>,
    <<"a","g","e","_","a","t","_","1","s","t","_","m","a","r","r","i","a","g","e","_","w","o","m","e","n">>,
    <<"t","o","t","a","l","_","p","o","p","u","l","a","t","i","o","n","_","w","i","t","h","_","p","r","o","j","e","c","t","i","o","n","s">>,
    <<"i","n","f","a","n","t","_","m","o","r","t","a","l","i","t","y","_","r","a","t","e","_","p","e","r","_","1","0","0","0","_","b","i","r","t","h","s">>,
    <<"m","e","d","i","c","a","l","_","d","o","c","t","o","r","s","_","p","e","r","_","1","0","0","0","_","p","e","o","p","l","e">>,
    <<"a","l","c","o","h","o","l","_","c","o","n","s","u","m","p","t","i","o","n","_","p","e","r","_","a","d","u","l","t","_","1","5","p","l","u","s","_","l","i","t","r","e","s">>,
    <<"s","m","o","k","i","n","g","_","a","d","u","l","t","s","_","p","e","r","c","e","n","t","_","o","f","_","p","o","p","u","l","a","t","i","o","n","_","o","v","e","r","_","a","g","e","_","1","5">>,
    <<"b","o","d","y","_","m","a","s","s","_","i","n","d","e","x","_","b","m","i","_","m","e","n","_","k","g","p","e","r","m","2">>,
    <<"b","o","d","y","_","m","a","s","s","_","i","n","d","e","x","_","b","m","i","_","w","o","m","e","n","_","k","g","p","e","r","m","2">>,
    <<"f","o","o","d","_","s","u","p","p","l","y","_","k","i","l","o","c","a","l","o","r","i","e","s","_","p","e","r","_","p","e","r","s","o","n","_","a","n","d","_","d","a","y">>,
    <<"s","u","g","a","r","_","p","e","r","_","p","e","r","s","o","n","_","g","_","p","e","r","_","d","a","y">>,
    <<"b","i","r","t","h","s","_","a","t","t","e","n","d","e","d","_","b","y","_","s","k","i","l","l","e","d","_","h","e","a","l","t","h","_","s","t","a","f","f","_","p","e","r","c","e","n","t","_","o","f","_","t","o","t","a","l">>,
    <<"g","d","p","p","e","r","c","a","p","i","t","a","_","u","s","_","i","n","f","l","a","t","i","o","n","_","a","d","j","u","s","t","e","d">>,
    <<"i","n","e","q","u","a","l","i","t","y","_","i","n","d","e","x","_","g","i","n","i">>,
    <<"i","n","f","l","a","t","i","o","n","_","a","n","n","u","a","l","_","p","e","r","c","e","n","t">>,
    <<"e","x","p","o","r","t","s","_","p","e","r","c","e","n","t","_","o","f","_","g","d","p">>,
    <<"i","m","p","o","r","t","s","_","p","e","r","c","e","n","t","_","o","f","_","g","d","p">>,
    <<"t","a","x","_","r","e","v","e","n","u","e","_","p","e","r","c","e","n","t","_","o","f","_","g","d","p">>,
    <<"t","o","t","a","l","_","n","u","m","b","e","r","_","o","f","_","d","o","l","l","a","r","_","b","i","l","l","i","o","n","a","i","r","e","s">>,
    <<"e","x","t","r","e","m","e","_","p","o","v","e","r","t","y","_","p","e","r","c","e","n","t","_","p","e","o","p","l","e","_","b","e","l","o","w","_","3","0","0","_","a","_","d","a","y">>,
    <<"a","g","e","d","_","1","5","p","l","u","s","_","u","n","e","m","p","l","o","y","m","e","n","t","_","r","a","t","e","_","p","e","r","c","e","n","t">>,
    <<"a","g","r","i","c","u","l","t","u","r","e","_","w","o","r","k","e","r","s","_","p","e","r","c","e","n","t","_","o","f","_","e","m","p","l","o","y","m","e","n","t">>,
    <<"i","n","d","u","s","t","r","y","_","w","o","r","k","e","r","s","_","p","e","r","c","e","n","t","_","o","f","_","e","m","p","l","o","y","m","e","n","t">>,
    <<"s","e","r","v","i","c","e","_","w","o","r","k","e","r","s","_","p","e","r","c","e","n","t","_","o","f","_","e","m","p","l","o","y","m","e","n","t">>,
    <<"w","o","r","k","i","n","g","_","h","o","u","r","s","_","p","e","r","_","w","e","e","k">>,
    <<"l","i","t","e","r","a","c","y","_","r","a","t","e","_","a","d","u","l","t">>,
    <<"m","e","a","n","_","y","e","a","r","s","_","i","n","_","s","c","h","o","o","l","_","m","e","n","_","2","5","_","y","e","a","r","s","_","a","n","d","_","o","l","d","e","r">>,
    <<"m","e","a","n","_","y","e","a","r","s","_","i","n","_","s","c","h","o","o","l","_","w","o","m","e","n","_","2","5","_","y","e","a","r","s","_","a","n","d","_","o","l","d","e","r">>,
    <<"c","h","i","l","d","r","e","n","_","o","u","t","_","o","f","_","s","c","h","o","o","l","_","p","r","i","m","a","r","y">>,
    <<"i","n","t","e","r","n","e","t","_","u","s","e","r","s">>,
    <<"c","e","l","l","_","p","h","o","n","e","s","_","p","e","r","_","1","0","0","_","p","e","o","p","l","e">>,
    <<"b","r","o","a","d","b","a","n","d","_","s","u","b","s","c","r","i","b","e","r","s","_","p","e","r","_","1","0","0","_","p","e","o","p","l","e">>,
    <<"c","a","r","s","_","t","r","u","c","k","s","_","a","n","d","_","b","u","s","e","s","_","p","e","r","_","1","0","0","0","_","p","e","r","s","o","n","s">>,
    <<"e","l","e","c","t","r","i","c","i","t","y","_","u","s","e","_","p","e","r","_","p","e","r","s","o","n">>,
    <<"r","o","a","d","s","_","p","a","v","e","d","_","p","e","r","c","e","n","t","_","o","f","_","t","o","t","a","l","_","r","o","a","d","s">>,
    <<"f","o","r","e","s","t","_","c","o","v","e","r","a","g","e","_","p","e","r","c","e","n","t">>,
    <<"c","o","2","_","e","m","i","s","s","i","o","n","s","_","t","o","n","n","e","s","_","p","e","r","_","p","e","r","s","o","n">>,
    <<"r","e","n","e","w","a","b","l","e","_","w","a","t","e","r","_","c","u","_","m","e","t","e","r","s","_","p","e","r","_","p","e","r","s","o","n">>,
    <<"a","g","r","i","c","u","l","t","u","r","a","l","_","l","a","n","d","_","p","e","r","c","e","n","t","_","o","f","_","l","a","n","d","_","a","r","e","a">>,
    <<"m","u","r","d","e","r","_","p","e","r","_","1","0","0","0","0","0","_","p","e","o","p","l","e">>,
    <<"t","r","a","f","f","i","c","_","d","e","a","t","h","s","_","p","e","r","_","1","0","0","0","0","0","_","p","e","o","p","l","e">>,
    <<"s","u","i","c","i","d","e","_","p","e","r","_","1","0","0","0","0","0","_","p","e","o","p","l","e">>,
    <<"m","i","l","i","t","a","r","y","_","e","x","p","e","n","d","i","t","u","r","e","_","p","e","r","c","e","n","t","_","o","f","_","g","d","p">>,
    <<"a","r","m","e","d","_","f","o","r","c","e","s","_","p","e","r","s","o","n","n","e","l","_","p","e","r","c","e","n","t","_","o","f","_","l","a","b","o","r","_","f","o","r","c","e">>,
    <<"p","u","m","p","_","p","r","i","c","e","_","f","o","r","_","g","a","s","o","l","i","n","e","_","u","s","_","p","e","r","_","l","i","t","e","r">>,
    <<"b","a","d","_","t","e","e","t","h","_","p","e","r","_","c","h","i","l","d","_","1","2","_","y","r">>,
    <<"t","e","e","n","_","f","e","r","t","i","l","i","t","y","_","r","a","t","e","_","b","i","r","t","h","s","_","p","e","r","_","1","0","0","0","_","w","o","m","e","n","_","a","g","e","s","_","1","5","_","1","9">>,
    <<"c","o","n","t","r","a","c","e","p","t","i","v","e","_","u","s","e","_","p","e","r","c","e","n","t","_","o","f","_","w","o","m","e","n","_","a","g","e","s","_","1","5","_","4","9">>
  >>

\* template_generator.py, TEMPLATE_METRICS (lines 36-198), in dict order
TEMPLATE_METRICS == <<
    [key |-> <<"l","i","f","e","_","e","x","p","e","c","t","a","n","c","y","_","f","e","m","a","l","e">>,
     display_name |-> <<"f","e","m","a","l","e"," ","l","i","f","e"," ","e","x","p","e","c","t","a","n","c","y">>, unit |-> <<"y","e","a","r","s">>,
     format |-> [prefix |-> << >>, comma |-> FALSE, decimals |-> 1],
     category |-> <<"H","e","a","l","t","h">>],
    [key |-> <<"l","i","f","e","_","e","x","p","e","c","t","a","n","c","y","_","m","a","l","e">>,
     display_name |-> <<"m","a","l","e"," ","l","i","f","e"," ","e","x","p","e","c","t","a","n","c","y">>, unit |-> <<"y","e","a","r","s">>,
     format |-> [prefix |-> << >>, comma |-> FALSE, decimals |-> 1],
     category |-> <<"H","e","a","l","t","h">>],
    [key |-> <<"m","e","d","i","a","n","_","a","g","e","_","y","e","a","r","s">>,
     display_name |-> <<"m","e","d","i","a","n"," ","a","g","e">>, unit |-> <<"y","e","a","r","s">>,
     format |-> [prefix |-> << >>, comma |-> FALSE, decimals |-> 1],
     category |-> <<"P","e","o","p","l","e"," ","&"," ","S","o","c","i","e","t","y">>],
    [key |-> <<"p","o","p","u","l","a","t","i","o","n","_","d","e","n","s","i","t","y","_","p","e","r","_","s","q","u","a","r","e","_","k","m">>,
     display_name |-> <<"p","o","p","u","l","a","t","i","o","n"," ","d","e","n","s","i","t","y">>, unit |-> <<"p","e","o","p","l","e"," ","p","e","r"," ","k","m","<^2>">>,
     format |-> [prefix |-> << >>, comma |-> FALSE, decimals |-> 0],
     category |-> <<"G","e","o","g","r","a","p","h","y"," ","&"," ","P","h","y","s","i","c","a","l">>],
    [key |-> <<"u","r","b","a","n","_","p","o","p","u","l","a","t","i","o","n","_","p","e","r","c","e","n","t","_","o","f","_","t","o","t","a","l">>,
     display_name |-> <<"u","r","b","a","n"," ","p","o","p","u","l","a","t","i","o","n">>, unit |-> <<"%">>,
     format |-> [prefix |-> << >>, comma |-> FALSE, decimals |-> 1],
     category |-> <<"P","e","o","p","l","e"," ","&"," ","S","o","c","i","e","t","y">>],
    [key |-> <<"i","n","f","a","n","t","_","m","o","r","t","a","l","i","t","y","_","r","a","t","e","_","p","e","r","_","1","0","0","0","_","b","i","r","t","h","s">>,
     display_name |-> <<"i","n","f","a","n","t"," ","m","o","r","t","a","l","i","t","y"," ","r","a","t","e">>, unit |-> <<"p","e","r"," ","1","0","0","0"," ","b","i","r","t","h","s">>,
     format |-> [prefix |-> << >>, comma |-> FALSE, decimals |-> 1],
     category |-> <<"H","e","a","l","t","h">>],
    [key |-> <<"m","e","d","i","c","a","l","_","d","o","c","t","o","r","s","_","p","e","r","_","1","0","0","0","_","p","e","o","p","l","e">>,
     display_name |-> <<"d","o","c","t","o","r","s"," ","p","e","r"," ","1","0","0","0"," ","p","e","o","p","l","e">>, unit |-> << >>,
     format |-> [prefix |-> << >>, comma |-> FALSE, decimals |-> 2],
     category |-> <<"H","e","a","l","t","h">>],
    [key |-> <<"a","l","c","o","h","o","l","_","c","o","n","s","u","m","p","t","i","o","n","_","p","e","r","_","a","d","u","l","t","_","1","5","p","l","u","s","_","l","i","t","r","e","s">>,
     display_name |-> <<"a","l","c","o","h","o","l"," ","c","o","n","s","u","m","p","t","i","o","n"," ","p","e","r"," ","a","d","u","l","t">>, unit |-> <<"l","i","t","r","e","s","/","y","e","a","r">>,
     format |-> [prefix |-> << >>, comma |-> FALSE, decimals |-> 1],
     category |-> <<"H","e","a","l","t","h">>],
    [key |-> <<"l","i","t","e","r","a","c","y","_","r","a","t","e","_","a","d","u","l","t">>,
     display_name |-> <<"a","d","u","l","t"," ","l","i","t","e","r","a","c","y"," ","r","a","t","e">>, unit |-> <<"%">>,
     format |-> [prefix |-> << >>, comma |-> FALSE, decimals |-> 1],
     category |-> <<"P","e","o","p","l","e"," ","&"," ","S","o","c","i","e","t","y">>],
    [key |-> <<"m","e","a","n","_","y","e","a","r","s","_","i","n","_","s","c","h","o","o","l","_","m","e","n","_","2","5","_","y","e","a","r","s","_","a","n","d","_","o","l","d","e","r">>,
     display_name |-> <<"a","v","e","r","a","g","e"," ","y","e","a","r","s"," ","o","f"," ","s","c","h","o","o","l","i","n","g"," ","(","m","e","n",")">>, unit |-> <<"y","e","a","r","s">>,
     format |-> [prefix |-> << >>, comma |-> FALSE, decimals |-> 1],
     category |-> <<"P","e","o","p","l","e"," ","&"," ","S","o","c","i","e","t","y">>],
    [key |-> <<"i","n","t","e","r","n","e","t","_","u","s","e","r","s">>,
     display_name |-> <<"i","n","t","e","r","n","e","t"," ","u","s","a","g","e"," ","r","a","t","e">>, unit |-> <<"%">>,
     format |-> [prefix |-> << >>, comma |-> FALSE, decimals |-> 1],
     category |-> <<"P","e","o","p","l","e"," ","&"," ","S","o","c","i","e","t","y">>],
    [key |-> <<"c","e","l","l","_","p","h","o","n","e","s","_","p","e","r","_","1","0","0","_","p","e","o","p","l","e">>,
     display_name |-> <<"c","e","l","l"," ","p","h","o","n","e","s"," ","p","e","r"," ","1","0","0"," ","p","e","o","p","l","e">>, unit |-> << >>,
     format |-> [prefix |-> << >>, comma |-> FALSE, decimals |-> 0],
     category |-> <<"P","e","o","p","l","e"," ","&"," ","S","o","c","i","e","t","y">>],
    [key |-> <<"c","a","r","s","_","t","r","u","c","k","s","_","a","n","d","_","b","u","s","e","s","_","p","e","r","_","1","0","0","0","_","p","e","r","s","o","n","s">>,
     display_name |-> <<"v","e","h","i","c","l","e","s"," ","p","e","r"," ","1","0","0","0"," ","p","e","o","p","l","e">>, unit |-> << >>,
     format |-> [prefix |-> << >>, comma |-> FALSE, decimals |-> 0],
     category |-> <<"E","c","o","n","o","m","y">>],
    [key |-> <<"f","o","r","e","s","t","_","c","o","v","e","r","a","g","e","_","p","e","r","c","e","n","t">>,
     display_name |-> <<"f","o","r","e","s","t"," ","c","o","v","e","r","a","g","e">>, unit |-> <<"%">>,
     format |-> [prefix |-> << >>, comma |-> FALSE, decimals |-> 1],
     category |-> <<"E","n","v","i","r","o","n","m","e","n","t">>],
    [key |-> <<"c","o","2","_","e","m","i","s","s","i","o","n","s","_","t","o","n","n","e","s","_","p","e","r","_","p","e","r","s","o","n">>,
     display_name |-> <<"C","O","2"," ","e","m","i","s","s","i","o","n","s"," ","p","e","r"," ","c","a","p","i","t","a">>, unit |-> <<"t","o","n","n","e","s">>,
     format |-> [prefix |-> << >>, comma |-> FALSE, decimals |-> 1],
     category |-> <<"E","n","v","i","r","o","n","m","e","n","t">>],
    [key |-> <<"a","g","r","i","c","u","l","t","u","r","a","l","_","l","a","n","d","_","p","e","r","c","e","n","t","_","o","f","_","l","a","n","d","_","a","r","e","a">>,
     display_name |-> <<"a","g","r","i","c","u","l","t","u","r","a","l"," ","l","a","n","d">>, unit |-> <<"%">>,
     format |-> [prefix |-> << >>, comma |-> FALSE, decimals |-> 1],
     category |-> <<"E","n","v","i","r","o","n","m","e","n","t">>],
    [key |-> <<"g","d","p","p","e","r","c","a","p","i","t","a","_","u","s","_","i","n","f","l","a","t","i","o","n","_","a","d","j","u","s","t","e","d">>,
     display_name |-> <<"G","D","P"," ","p","e","r"," ","c","a","p","i","t","a">>, unit |-> <<"U","S","D">>,
     format |-> [prefix |-> <<"$">>, comma |-> TRUE, decimals |-> 0],
     category |-> <<"E","c","o","n","o","m","y">>],
    [key |-> <<"i","n","e","q","u","a","l","i","t","y","_","i","n","d","e","x","_","g","i","n","i">>,
     display_name |-> <<"i","n","e","q","u","a","l","i","t","y"," ","i","n","d","e","x"," ","(","G","i","n","i",")">>, unit |-> << >>,
     format |-> [prefix |-> << >>, comma |-> FALSE, decimals |-> 1],
     category |-> <<"E","c","o","n","o","m","y">>],
    [key |-> <<"a","g","e","d","_","1","5","p","l","u","s","_","u","n","e","m","p","l","o","y","m","e","n","t","_","r","a","t","e","_","p","e","r","c","e","n","t">>,
     display_name |-> <<"u","n","e","m","p","l","o","y","m","e","n","t"," ","r","a","t","e">>, unit |-> <<"%">>,
     format |-> [prefix |-> << >>, comma |-> FALSE, decimals |-> 1],
     category |-> <<"E","c","o","n","o","m","y">>],
    [key |-> <<"m","u","r","d","e","r","_","p","e","r","_","1","0","0","0","0","0","_","p","e","o","p","l","e">>,
     display_name |-> <<"m","u","r","d","e","r"," ","r","a","t","e">>, unit |-> <<"p","e","r"," ","1","0","0",",","0","0","0">>,
     format |-> [prefix |-> << >>, comma |-> FALSE, decimals |-> 1],
     category |-> <<"P","e","o","p","l","e"," ","&"," ","S","o","c","i","e","t","y">>],
    [key |-> <<"t","r","a","f","f","i","c","_","d","e","a","t","h","s","_","p","e","r","_","1","0","0","0","0","0","_","p","e","o","p","l","e">>,
     display_name |-> <<"t","r","a","f","f","i","c"," ","d","e","a","t","h","s">>, unit |-> <<"p","e","r"," ","1","0","0",",","0","0","0">>,
     format |-> [prefix |-> << >>, comma |-> FALSE, decimals |-> 1],
     category |-> <<"H","e","a","l","t","h">>],
    [key |-> <<"m","i","l","i","t","a","r","y","_","e","x","p","e","n","d","i","t","u","r","e","_","p","e","r","c","e","n","t","_","o","f","_","g","d","p">>,
     display_name |-> <<"m","i","l","i","t","a","r","y"," ","s","p","e","n","d","i","n","g">>, unit |-> <<"%"," ","o","f"," ","G","D","P">>,
     format |-> [prefix |-> << >>, comma |-> FALSE, decimals |-> 1],
     category |-> <<"E","c","o","n","o","m","y">>],
    [key |-> <<"p","u","m","p","_","p","r","i","c","e","_","f","o","r","_","g","a","s","o","l","i","n","e","_","u","s","_","p","e","r","_","l","i","t","e","r">>,
     display_name |-> <<"g","a","s","o","l","i","n","e"," ","p","r","i","c","e">>, unit |-> <<"U","S","D","/","l","i","t","e","r">>,
     format |-> [prefix |-> <<"$">>, comma |-> FALSE, decimals |-> 2],
     category |-> <<"E","c","o","n","o","m","y">>],
    [key |-> <<"w","o","r","k","i","n","g","_","h","o","u","r","s","_","p","e","r","_","w","e","e","k">>,
     display_name |-> <<"a","v","e","r","a","g","e"," ","w","o","r","k","i","n","g"," ","h","o","u","r","s">>, unit |-> <<"h","o","u","r","s","/","w","e","e","k">>,
     format |-> [prefix |-> << >>, comma |-> FALSE, decimals |-> 1],
     category |-> <<"E","c","o","n","o","m","y">>]
  >>

\* template_generator.py, DATASET_TO_MODEL_CATEGORY (lines 27-33)
DATASET_TO_MODEL_CATEGORY == <<
    [dataset |-> <<"P","e","o","p","l","e"," ","&"," ","S","o","c","i","e","t","y">>, model |-> <<"m","e","n","t","a","l">>],
    [dataset |-> <<"E","c","o","n","o","m","y">>, model |-> <<"e","c","o","n","o","m","i","c">>],
    [dataset |-> <<"H","e","a","l","t","h">>, model |-> <<"p","h","y","s","i","c","a","l">>],
    [dataset |-> <<"E","n","v","i","r","o","n","m","e","n","t">>, model |-> <<"e","n","v","i","r","o","n","m","e","n","t","a","l">>],
    [dataset |-> <<"G","e","o","g","r","a","p","h","y"," ","&"," ","P","h","y","s","i","c","a","l">>, model |-> <<"p","h","y","s","i","c","a","l">>]
  >>

\* ai_generator.py, _find_matching_metric, keyword_mappings (lines 353-400), in dict order
keyword_mappings == <<
    [keyword |-> <<"l","i","f","e"," ","e","x","p","e","c","t","a","n","c","y">>,
     patterns |-> <<<<"l","i","f","e"," ","e","x","p","e","c","t","a","n","c","y">>>>],
    [keyword |-> <<"l","i","t","e","r","a","c","y">>,
     patterns |-> <<<<"l","i","t","e","r","a","c","y">>>>],
    [keyword |-> <<"f","o","r","e","s","t">>,
     patterns |-> <<<<"f","o","r","e","s","t"," ","c","o","v","e","r","a","g","e">>, <<"f","o","r","e","s","t">>>>],
    [keyword |-> <<"g","d","p">>,
     patterns |-> <<<<"g","d","p">>, <<"g","d","p","p","e","r","c","a","p","i","t","a">>>>],
    [keyword |-> <<"u","n","e","m","p","l","o","y","m","e","n","t">>,
     patterns |-> <<<<"u","n","e","m","p","l","o","y","m","e","n","t">>>>],
    [keyword |-> <<"i","n","f","a","n","t"," ","m","o","r","t","a","l","i","t","y">>,
     patterns |-> <<<<"i","n","f","a","n","t"," ","m","o","r","t","a","l","i","t","y">>>>],
    [keyword |-> <<"p","o","p","u","l","a","t","i","o","n"," ","d","e","n","s","i","t","y">>,
     patterns |-> <<<<"p","o","p","u","l","a","t","i","o","n"," ","d","e","n","s","i","t","y">>>>],
    [keyword |-> <<"u","r","b","a","n"," ","p","o","p","u","l","a","t","i","o","n">>,
     patterns |-> <<<<"u","r","b","a","n"," ","p","o","p","u","l","a","t","i","o","n">>>>],
    [keyword |-> <<"s","e","r","v","i","c","e">>,
     patterns |-> <<<<"s","e","r","v","i","c","e"," ","w","o","r","k","e","r","s">>>>],
    [keyword |-> <<"a","g","r","i","c","u","l","t","u","r","e">>,
     patterns |-> <<<<"a","g","r","i","c","u","l","t","u","r","e"," ","w","o","r","k","e","r","s">>>>],
    [keyword |-> <<"i","n","d","u","s","t","r","y">>,
     patterns |-> <<<<"i","n","d","u","s","t","r","y"," ","w","o","r","k","e","r","s">>>>],
    [keyword |-> <<"i","n","t","e","r","n","e","t">>,
     patterns |-> <<<<"i","n","t","e","r","n","e","t">>>>],
    [keyword |-> <<"d","o","c","t","o","r","s">>,
     patterns |-> <<<<"m","e","d","i","c","a","l"," ","d","o","c","t","o","r","s">>, <<"d","o","c","t","o","r","s">>>>],
    [keyword |-> <<"c","o","2">>,
     patterns |-> <<<<"c","o","2"," ","e","m","i","s","s","i","o","n","s">>>>],
    [keyword |-> <<"a","l","c","o","h","o","l">>,
     patterns |-> <<<<"a","l","c","o","h","o","l"," ","c","o","n","s","u","m","p","t","i","o","n">>>>],
    [keyword |-> <<"s","m","o","k","i","n","g">>,
     patterns |-> <<<<"s","m","o","k","i","n","g">>>>],
    [keyword |-> <<"m","e","d","i","a","n"," ","a","g","e">>,
     patterns |-> <<<<"m","e","d","i","a","n"," ","a","g","e">>>>],
    [keyword |-> <<"f","e","r","t","i","l","i","t","y">>,
     patterns |-> <<<<"t","e","e","n"," ","f","e","r","t","i","l","i","t","y">>, <<"f","e","r","t","i","l","i","t","y"," ","r","a","t","e">>>>],
    [keyword |-> <<"m","a","r","r","i","a","g","e">>,
     patterns |-> <<<<"m","a","r","r","i","a","g","e">>>>],
    [keyword |-> <<"w","o","r","k","i","n","g"," ","h","o","u","r","s">>,
     patterns |-> <<<<"w","o","r","k","i","n","g"," ","h","o","u","r","s">>>>],
    [keyword |-> <<"c","e","l","l"," ","p","h","o","n","e">>,
     patterns |-> <<<<"c","e","l","l"," ","p","h","o","n","e","s">>>>],
    [keyword |-> <<"b","r","o","a","d","b","a","n","d">>,
     patterns |-> <<<<"b","r","o","a","d","b","a","n","d">>>>],
    [keyword |-> <<"c","a","r","s">>,
     patterns |-> <<<<"c","a","r","s"," ","t","r","u","c","k","s">>>>],
    [keyword |-> <<"e","l","e","c","t","r","i","c","i","t","y">>,
     patterns |-> <<<<"e","l","e","c","t","r","i","c","i","t","y">>>>],
    [keyword |-> <<"r","o","a","d","s">>,
     patterns |-> <<<<"r","o","a","d","s"," ","p","a","v","e","d">>>>],
    [keyword |-> <<"w","a","t","e","r">>,
     patterns |-> <<<<"r","e","n","e","w","a","b","l","e"," ","w","a","t","e","r">>>>],
    [keyword |-> <<"a","g","r","i","c","u","l","t","u","r","a","l"," ","l","a","n","d">>,
     patterns |-> <<<<"a","g","r","i","c","u","l","t","u","r","a","l"," ","l","a","n","d">>>>],
    [keyword |-> <<"m","u","r","d","e","r">>,
     patterns |-> <<<<"m","u","r","d","e","r">>>>],
    [keyword |-> <<"t","r","a","f","f","i","c"," ","d","e","a","t","h">>,
     patterns |-> <<<<"t","r","a","f","f","i","c"," ","d","e","a","t","h","s">>>>],
    [keyword |-> <<"s","u","i","c","i","d","e">>,
     patterns |-> <<<<"s","u","i","c","i","d","e">>>>],
    [keyword |-> <<"m","i","l","i","t","a","r","y">>,
     patterns |-> <<<<"m","i","l","i","t","a","r","y"," ","e","x","p","e","n","d","i","t","u","r","e">>>>],
    [keyword |-> <<"a","r","m","e","d"," ","f","o","r","c","e","s">>,
     patterns |-> <<<<"a","r","m","e","d"," ","f","o","r","c","e","s">>>>],
    [keyword |-> <<"g","a","s","o","l","i","n","e">>,
     patterns |-> <<<<"p","u","m","p"," ","p","r","i","c","e">>, <<"g","a","s","o","l","i","n","e">>>>],
    [keyword |-> <<"t","e","e","t","h">>,
     patterns |-> <<<<"b","a","d"," ","t","e","e","t","h">>>>],
    [keyword |-> <<"b","m","i">>,
     patterns |-> <<<<"b","o","d","y"," ","m","a","s","s"," ","i","n","d","e","x">>, <<"b","m","i">>>>],
    [keyword |-> <<"f","o","o","d"," ","s","u","p","p","l","y">>,
     patterns |-> <<<<"f","o","o","d"," ","s","u","p","p","l","y">>, <<"k","i","l","o","c","a","l","o","r","i","e","s">>>>],
    [keyword |-> <<"s","u","g","a","r">>,
     patterns |-> <<<<"s","u","g","a","r">>>>],
    [keyword |-> <<"i","n","e","q","u","a","l","i","t","y">>,
     patterns |-> <<<<"i","n","e","q","u","a","l","i","t","y">>, <<"g","i","n","i">>>>],
    [keyword |-> <<"i","n","f","l","a","t","i","o","n">>,
     patterns |-> <<<<"i","n","f","l","a","t","i","o","n">>>>],
    [keyword |-> <<"e","x","p","o","r","t","s">>,
     patterns |-> <<<<"e","x","p","o","r","t","s">>>>],
    [keyword |-> <<"i","m","p","o","r","t","s">>,
     patterns |-> <<<<"i","m","p","o","r","t","s">>>>],
    [keyword |-> <<"t","a","x">>,
     patterns |-> <<<<"t","a","x"," ","r","e","v","e","n","u","e">>>>],
    [keyword |-> <<"b","i","l","l","i","o","n","a","i","r","e">>,
     patterns |-> <<<<"b","i","l","l","i","o","n","a","i","r","e">>>>],
    [keyword |-> <<"p","o","v","e","r","t","y">>,
     patterns |-> <<<<"p","o","v","e","r","t","y">>, <<"e","x","t","r","e","m","e"," ","p","o","v","e","r","t","y">>>>],
    [keyword |-> <<"s","c","h","o","o","l">>,
     patterns |-> <<<<"y","e","a","r","s"," ","i","n"," ","s","c","h","o","o","l">>, <<"m","e","a","n"," ","y","e","a","r","s">>>>],
    [keyword |-> <<"c","h","i","l","d","r","e","n"," ","o","u","t"," ","o","f"," ","s","c","h","o","o","l">>,
     patterns |-> <<<<"c","h","i","l","d","r","e","n"," ","o","u","t"," ","o","f"," ","s","c","h","o","o","l">>>>]
  >>

\* question_generator.py, _get_alternate_names, name_variants (lines 64-88), in dict order
name_variants == <<
    [name |-> <<"D","e","m","o","c","r","a","t","i","c"," ","R","e","p","u","b","l","i","c"," ","o","f"," ","t","h","e"," ","C","o","n","g","o">>,
     variants |-> <<<<"C","o","n","g","o",","," ","D","e","m","."," ","R","e","p",".">>, <<"D","R","C">>, <<"D","R"," ","C","o","n","g","o">>>>],
    [name |-> <<"R","e","p","u","b","l","i","c"," ","o","f"," ","t","h","e"," ","C","o","n","g","o">>,
     variants |-> <<<<"C","o","n","g","o",","," ","R","e","p",".">>, <<"C","o","n","g","o">>>>],
    [name |-> <<"S","o","u","t","h"," ","K","o","r","e","a">>,
     variants |-> <<<<"K","o","r","e","a",","," ","R","e","p",".">>, <<"K","o","r","e","a">>>>],
    [name |-> <<"N","o","r","t","h"," ","K","o","r","e","a">>,
     variants |-> <<<<"K","o","r","e","a",","," ","D","e","m","."," ","R","e","p",".">>>>],
    [name |-> <<"U","n","i","t","e","d"," ","S","t","a","t","e","s">>,
     variants |-> <<<<"U","S","A">>, <<"U","n","i","t","e","d"," ","S","t","a","t","e","s"," ","o","f"," ","A","m","e","r","i","c","a">>>>],
    [name |-> <<"U","n","i","t","e","d"," ","K","i","n","g","d","o","m">>,
     variants |-> <<<<"U","K">>, <<"B","r","i","t","a","i","n">>, <<"G","r","e","a","t"," ","B","r","i","t","a","i","n">>>>],
    [name |-> <<"R","u","s","s","i","a">>,
     variants |-> <<<<"R","u","s","s","i","a","n"," ","F","e","d","e","r","a","t","i","o","n">>>>],
    [name |-> <<"I","r","a","n">>,
     variants |-> <<<<"I","r","a","n",","," ","I","s","l","a","m","i","c"," ","R","e","p",".">>>>],
    [name |-> <<"E","g","y","p","t">>,
     variants |-> <<<<"E","g","y","p","t",","," ","A","r","a","b"," ","R","e","p",".">>>>],
    [name |-> <<"V","e","n","e","z","u","e","l","a">>,
     variants |-> <<<<"V","e","n","e","z","u","e","l","a",","," ","R","B">>>>],
    [name |-> <<"Y","e","m","e","n">>,
     variants |-> <<<<"Y","e","m","e","n",","," ","R","e","p",".">>>>],
    [name |-> <<"S","y","r","i","a">>,
     variants |-> <<<<"S","y","r","i","a","n"," ","A","r","a","b"," ","R","e","p","u","b","l","i","c">>>>],
    [name |-> <<"L","a","o","s">>,
     variants |-> <<<<"L","a","o">>, <<"L","a","o"," ","P","D","R">>>>],
    [name |-> <<"V","i","e","t","n","a","m">>,
     variants |-> <<<<"V","i","e","t"," ","N","a","m">>>>],
    [name |-> <<"I","v","o","r","y"," ","C","o","a","s","t">>,
     variants |-> <<<<"C","o","t","e"," ","d","'","I","v","o","i","r","e">>, <<"C","<o^>","t","e"," ","d","'","I","v","o","i","r","e">>>>],
    [name |-> <<"C","z","e","c","h"," ","R","e","p","u","b","l","i","c">>,
     variants |-> <<<<"C","z","e","c","h","i","a">>>>],
    [name |-> <<"E","a","s","t"," ","T","i","m","o","r">>,
     variants |-> <<<<"T","i","m","o","r","-","L","e","s","t","e">>>>],
    [name |-> <<"C","a","p","e"," ","V","e","r","d","e">>,
     variants |-> <<<<"C","a","b","o"," ","V","e","r","d","e">>>>],
    [name |-> <<"G","a","m","b","i","a">>,
     variants |-> <<<<"G","a","m","b","i","a",","," ","T","h","e">>>>],
    [name |-> <<"B","a","h","a","m","a","s">>,
     variants |-> <<<<"B","a","h","a","m","a","s",","," ","T","h","e">>>>],
    [name |-> <<"K","y","r","g","y","z","s","t","a","n">>,
     variants |-> <<<<"K","y","r","g","y","z"," ","R","e","p","u","b","l","i","c">>>>],
    [name |-> <<"S","l","o","v","a","k","i","a">>,
     variants |-> <<<<"S","l","o","v","a","k"," ","R","e","p","u","b","l","i","c">>>>],
    [name |-> <<"M","i","c","r","o","n","e","s","i","a">>,
     variants |-> <<<<"M","i","c","r","o","n","e","s","i","a",","," ","F","e","d","."," ","S","t","s",".">>>>]
  >>

\* ------------------------------------------------- ai_generator.py

\* datetime.datetime.now().year
CurrentYear == 2026

\* A country's dataset entry is a sequence of categories
\* [name, metrics], metrics a sequence of [key, value, year] (a JSON object in
\* file order); year 0 stands for a missing or null year, which the code's
\* "if year and ..." treats alike.  is_dict tells whether the metric is a JSON
\* object, has_value whether it has the key "value"; value_type and year_type
\* are the Python types json.load gives the two values.  A category that is
\* not a JSON object is skipped as one without metrics is.
HasKey(metrics, key) == \E i \in 1..Len(metrics) : metrics[i].key = key

GetKey(metrics, key) == metrics[CHOOSE i \in 1..Len(metrics) : metrics[i].key = key]

\* metrics[display_name] = {...} on a dict that keeps insertion order
DictPut(d, e) ==
    IF \E i \in 1..Len(d) : d[i].name = e.name
    THEN Eager([i \in 1..Len(d) |-> IF d[i].name = e.name THEN e ELSE d[i]])
    ELSE Append(d, e)

RECURSIVE DictPutAll(_, _)
DictPutAll(d, es) ==
    IF es = << >> THEN d
    ELSE Bind(DictPut(d, Head(es)), LAMBDA put : DictPutAll(put, Tail(es)))

\* isinstance(metric, dict) and "value" in metric
IsValueDict(metric) == metric.is_dict /\ metric.has_value

\* SkippedYear without the test of line 258
SkippedYearFuture(year) == year # 0 /\ year > CurrentYear

\* the two "continue" tests of _extract_metrics
SkippedYear(year) ==
    \/ (year # 0 /\ year > CurrentYear)
    \/ (year # 0 /\ year < CurrentYear - 15)

DisplayName(metric_key) == Title(ReplaceCh(metric_key, "_", " "))

\* the inner loop of _extract_metrics over one category
CategoryMetrics(category_data) ==
    Bind(SelectSeq(INTERESTING_METRICS,
                   LAMBDA k : HasKey(category_data, k)
                              /\ IsValueDict(GetKey(category_data, k))
                              /\ ~SkippedYear(GetKey(category_data, k).year)),
         LAMBDA kept :
        Eager([i \in 1..Len(kept) |->
                 [name |-> Eager(DisplayName(kept[i])),
                  value |-> GetKey(category_data, kept[i]).value,
                  value_type |-> GetKey(category_data, kept[i]).value_type,
                  year |-> GetKey(category_data, kept[i]).year]]))

RECURSIVE ExtractFrom(_, _)
ExtractFrom(metrics, categories) ==
    IF categories = << >> THEN metrics
    ELSE Bind(CategoryMetrics(Head(categories).metrics), LAMBDA found :
         Bind(DictPutAll(metrics, found), LAMBDA put :
              ExtractFrom(put, Tail(categories))))

\* "year > current_year" raises TypeError when year is a non-empty string
ExtractMetricsRaises(country_data) ==
    \E c \in 1..Len(country_data) : \E i \in 1..Len(country_data[c].metrics) :
        \E metric \in {country_data[c].metrics[i]} :
            /\ \E k \in 1..Len(INTERESTING_METRICS) : INTERESTING_METRICS[k] = metric.key
            /\ IsValueDict(metric)
            /\ metric.year_type = "str"

\* AIQuestionGenerator._extract_metrics
ExtractMetrics(country_data) == ExtractFrom(<< >>, country_data)

\* A raw draft of the backend is a record: has is the set of keys the JSON
\* object holds; ci_type, choices_type and prompt_type are the Python types of
\* the values of correct_index, choices and prompt (choices is << >> for a
\* null, prompt the text of str(prompt)).
RequiredFields == {"prompt", "choices", "correct_index"}

\* isinstance(x, int): bool is a subclass of int
IsInstanceInt(ci_type) == ci_type \in {"int", "bool"}

\* ValidateQuestion without the test of line 279
ValidateQuestionAnyChoices(question) ==
    /\ RequiredFields \subseteq question.has
    /\ Len(question.choices) = 4
    /\ IsInstanceInt(question.ci_type)
    /\ ~(question.correct_index < 0 \/ question.correct_index > 3)

\* AIQuestionGenerator._validate_question
ValidateQuestion(question) ==
    /\ RequiredFields \subseteq question.has
    /\ Len(question.choices) = 4
    /\ Cardinality({Strip(question.choices[i]) : i \in 1..Len(question.choices)}) = 4
    /\ IsInstanceInt(question.ci_type)
    /\ ~(question.correct_index < 0 \/ question.correct_index > 3)

\* len(question.get("choices", [])) raises TypeError for a null
ValidateQuestionRaises(question) ==
    RequiredFields \subseteq question.has /\ question.choices_type = "null"

\* question_prompt.lower() of _find_matching_metric raises AttributeError for
\* a prompt that is no str
FindMatchingMetricRaises(question) == question.prompt_type # "str"

CurrencySymbols == {"$", "<EUR>", "<GBP>"}

\* re.match(r'^([$€£]?)(\d+\.?\d*)\s*(.*)$', text) and float(num_str)
ParseChoice(text) ==
    LET p == IF text # << >> /\ text[1] \in CurrencySymbols THEN 1 ELSE 0
        n1 == DigitRun(text, p + 1)
        dot == p + n1 + 1 <= Len(text) /\ text[p + n1 + 1] = "."
        n2 == IF dot THEN DigitRun(text, p + n1 + 2) ELSE 0
        stop == p + n1 + (IF dot THEN 1 + n2 ELSE 0)
    IN  IF n1 = 0 THEN [valid |-> FALSE, prefix |-> << >>, num |-> 0, suffix |-> << >>]
        ELSE [valid |-> TRUE,
              prefix |-> SubSeq(text, 1, p),
              num |-> ParseFloat(SubSeq(text, p + 1, p + n1),
                                 SubSeq(text, p + n1 + 2, p + n1 + 1 + n2)),
              suffix |-> LStrip(SubSeq(text, stop + 1, Len(text)))]

\* the new_choice of one parsed choice
RenderChoice(p) ==
    LET rounded == RoundHalfEven(p.num, Unit) \div Unit
        tail == IF p.suffix = << >> THEN << >>
                ELSE IF StartsWith(p.suffix, <<"%">>) THEN p.suffix
                ELSE <<" ">> \o p.suffix
    IN  Strip(p.prefix \o IntToStr(rounded) \o tail)

\* NormalizeChoicePrecision without the return of lines 310-312: the choices
\* that parse are rounded, the others kept
NormalizeChoicePrecisionAny(question) ==
    Bind(question.choices, LAMBDA choices :
    Bind(Eager([i \in 1..Len(choices) |-> ParseChoice(Strip(choices[i]))]), LAMBDA parsed :
        [question EXCEPT
           !.choices = Eager([i \in 1..Len(parsed) |->
                                IF parsed[i].valid THEN RenderChoice(parsed[i])
                                ELSE choices[i]])]))

\* AIQuestionGenerator._normalize_choice_precision
NormalizeChoicePrecision(question) ==
    Bind(question.choices, LAMBDA choices :
    Bind(Eager([i \in 1..Len(choices) |-> ParseChoice(Strip(choices[i]))]), LAMBDA parsed :
        IF choices = << >> THEN question
        ELSE IF ~(\A i \in 1..Len(parsed) : parsed[i].valid) THEN question
        ELSE [question EXCEPT
                !.choices = Eager([i \in 1..Len(parsed) |-> RenderChoice(parsed[i])])]))

NoNumber == [ok |-> FALSE, val |-> 0]

\* one attempt of r'[-+]?\d*\.?\d+' at position j, the sign already read
NumberCoreAt(s, j, sign) ==
    LET n1 == DigitRun(s, j)
        dot == j + n1 <= Len(s) /\ s[j + n1] = "."
        n2 == IF dot THEN DigitRun(s, j + n1 + 1) ELSE 0
    IN  IF n2 > 0
        THEN [ok |-> TRUE,
              val |-> sign * ParseFloat(SubSeq(s, j, j + n1 - 1),
                                        SubSeq(s, j + n1 + 1, j + n1 + n2))]
        ELSE IF n1 > 0
        THEN [ok |-> TRUE, val |-> sign * ParseFloat(SubSeq(s, j, j + n1 - 1), << >>)]
        ELSE NoNumber

NumberAt(s, i) ==
    IF s[i] = "-" THEN NumberCoreAt(s, i + 1, 0 - 1)
    ELSE IF s[i] = "+" THEN NumberCoreAt(s, i + 1, 1)
    ELSE NumberCoreAt(s, i, 1)

\* AIQuestionGenerator._extract_number_from_text: float of the first match
ExtractNumberFromText(text) ==
    Bind(RemoveChars(text, CurrencySymbols \cup {","}), LAMBDA cleaned :
    Bind({i \in 1..Len(cleaned) : NumberAt(cleaned, i).ok}, LAMBDA matches :
        IF text = << >> \/ matches = {} THEN NoNumber
        ELSE NumberAt(cleaned, Least(matches))))

NoMetric == [ok |-> FALSE, name |-> << >>, value |-> 0]

\* whether a metric of the extracted map matches one pattern of the keyword
MatchesPatterns(metric_name, patterns) ==
    Bind(Eager(Lower(metric_name)), LAMBDA metric_name_lower :
        \E p \in 1..Len(patterns) : IsSubstr(patterns[p], metric_name_lower))

\* AIQuestionGenerator._find_matching_metric: the first keyword of the table
\* found in the prompt for which a metric matches, and the first such metric
FindMatchingMetric(question_prompt, metrics) ==
    Bind(Eager(Lower(question_prompt)), LAMBDA prompt_lower :
    Bind({k \in 1..Len(keyword_mappings) :
            /\ IsSubstr(keyword_mappings[k].keyword, prompt_lower)
            /\ \E m \in 1..Len(metrics) :
                  MatchesPatterns(metrics[m].name, keyword_mappings[k].patterns)},
         LAMBDA ks :
    IF ks = {} THEN NoMetric
    ELSE Bind(Least({m \in 1..Len(metrics) :
                        MatchesPatterns(metrics[m].name,
                                        keyword_mappings[Least(ks)].patterns)}),
              LAMBDA m0 :
         [ok |-> TRUE, name |-> metrics[m0].name, value |-> metrics[m0].value])))

\* A key that a draft does not hold has, in the record, the default that the
\* code's question.get(key, default) gives.
TextFields == <<"surprising_fact", "explanation", "did_you_know">>

\* the length of the match of r'(\d+\.?\d*)(?=%)' at position i, 0 for none
PercentNumberAt(text, i) ==
    LET n1 == DigitRun(text, i)
        dot == i + n1 <= Len(text) /\ text[i + n1] = "."
        n2 == IF dot THEN DigitRun(text, i + n1 + 1) ELSE 0
        len == n1 + (IF dot THEN 1 + n2 ELSE 0)
    IN  IF n1 > 0 /\ i + len <= Len(text) /\ text[i + len] = "%" THEN len
        ELSE 0

\* ReplaceWrongNumber without the test of line 485
ReplaceWrongNumberAlways(group, actual_value, correct_choice_value) ==
    IF InSeq(".", group)
    THEN FormatOneDecimal(correct_choice_value)
    ELSE IntToStr(RoundHalfEven(correct_choice_value, Unit) \div Unit)

\* replace_wrong_number(match) of _validate_and_fix_answer
ReplaceWrongNumber(group, actual_value, correct_choice_value) ==
    LET n1 == DigitRun(group, 1)
        num == ParseFloat(SubSeq(group, 1, n1), SubSeq(group, n1 + 2, Len(group)))
    IN  IF Abs(num - actual_value) * 5 < actual_value
        THEN IF InSeq(".", group)
             THEN FormatOneDecimal(correct_choice_value)
             ELSE IntToStr(RoundHalfEven(correct_choice_value, Unit) \div Unit)
        ELSE group

\* re.sub(r'(\d+\.?\d*)(?=%)', replace_wrong_number, text) from position i
\* on: the text up to the leftmost match, its replacement, and the rest
RECURSIVE SubPercentNumbers(_, _, _, _)
SubPercentNumbers(text, i, actual_value, correct_choice_value) ==
    Bind({j \in i..Len(text) : PercentNumberAt(text, j) > 0}, LAMBDA starts :
        IF starts = {} THEN SubSeq(text, i, Len(text))
        ELSE Bind(Least(starts), LAMBDA j :
             Bind(PercentNumberAt(text, j), LAMBDA len :
                 SubSeq(text, i, j - 1)
                 \o ReplaceWrongNumber(SubSeq(text, j, j + len - 1),
                                       actual_value, correct_choice_value)
                 \o SubPercentNumbers(text, j + len, actual_value,
                                      correct_choice_value))))

FixText(question, field, actual_value, correct_choice_value) ==
    IF field \in question.has /\ question[field] # << >>
    THEN SubPercentNumbers(question[field], 1, actual_value, correct_choice_value)
    ELSE question[field]

\* the numbers read from the four choices
ChoiceValues(choices) ==
    Eager([i \in 1..Len(choices) |-> ExtractNumberFromText(choices[i])])

\* best_match_index of _validate_and_fix_answer, as a position 1..4 (0: None):
\* the first choice with the smallest distance to the actual value
BestMatchIndex(choice_values, actual_value) ==
    LET Diff(i) == Abs(choice_values[i].val - actual_value)
    IN  Bind({i \in 1..Len(choice_values) : choice_values[i].ok}, LAMBDA parsed :
            IF parsed = {} THEN 0
            ELSE CHOOSE i \in parsed :
                    \A j \in parsed : Diff(i) < Diff(j) \/ (Diff(i) = Diff(j) /\ i <= j))

\* ExceedsTolerance with 0.30 for 0.15
ExceedsToleranceDoubled(diff, actual_value) ==
    diff * 20 > Max(actual_value * 6, 40 * Unit)

\* best_match_diff > max(actual_value * 0.15, 2), both sides times 20
ExceedsTolerance(diff, actual_value) == diff * 20 > Max(actual_value * 3, 40 * Unit)

Rejected == [ok |-> FALSE]

\* FixCorrectIndex without the assignment of line 470
FixCorrectIndexKept(question, best_match_index) == question

\* if best_match_index != correct_index: question["correct_index"] =
\* best_match_index (0-based; True and False compare as 1 and 0)
FixCorrectIndex(question, best_match_index) ==
    IF best_match_index - 1 # question.correct_index
    THEN [question EXCEPT !.correct_index = best_match_index - 1, !.ci_type = "int"]
    ELSE question

\* AIQuestionGenerator._validate_and_fix_answer: [ok |-> FALSE] is None
ValidateAndFixAnswer(question, metrics) ==
    Bind(FindMatchingMetric(question.prompt, metrics), LAMBDA metric_match :
    IF ~metric_match.ok THEN [ok |-> TRUE, q |-> question]
    ELSE
    Bind(metric_match.value, LAMBDA actual_value :
    Bind(ChoiceValues(question.choices), LAMBDA choice_values :
    Bind(BestMatchIndex(choice_values, actual_value), LAMBDA best_match_index :
    IF best_match_index = 0
       \/ ExceedsTolerance(Abs(choice_values[best_match_index].val - actual_value),
                           actual_value)
    THEN Rejected
    ELSE
    Bind(choice_values[best_match_index].val, LAMBDA correct_choice_value :
        [ok |-> TRUE,
         q |-> [FixCorrectIndex(question, best_match_index) EXCEPT
                  !.surprising_fact = FixText(question, "surprising_fact",
                                              actual_value, correct_choice_value),
                  !.explanation = FixText(question, "explanation",
                                          actual_value, correct_choice_value),
                  !.did_you_know = FixText(question, "did_you_know",
                                           actual_value, correct_choice_value)]])))))

\* whether the body of the loop of generate_questions raises for the draft
DraftRaises(q) ==
    \/ ValidateQuestionRaises(q)
    \/ (ValidateQuestion(q) /\ FindMatchingMetricRaises(q))

\* the body of the loop of generate_questions for one draft: whether it
\* raised, and what each stage made of the draft (structural: _validate_question
\* returned True)
ProcessDraft(q, metrics) ==
    Bind(DraftRaises(q), LAMBDA raised :
    Bind(~ValidateQuestionRaises(q) /\ ValidateQuestion(q), LAMBDA structural :
    Bind(IF structural THEN NormalizeChoicePrecision(q) ELSE q, LAMBDA normalized :
    Bind(IF structural /\ ~raised THEN ValidateAndFixAnswer(normalized, metrics)
         ELSE Rejected,
         LAMBDA fixed :
        [raised |-> raised, structural |-> structural, normalized |-> normalized,
         fixed |-> fixed]))))

\* an exception in the loop: "except Exception" of line 576 returns []
LoopRaises(questions_data) ==
    \E i \in 1..Len(questions_data) : DraftRaises(questions_data[i])

RECURSIVE ValidQuestions(_, _)
ValidQuestions(questions_data, metrics) ==
    IF questions_data = << >> THEN << >>
    ELSE Bind(ProcessDraft(Head(questions_data), metrics), LAMBDA r :
             (IF r.structural /\ r.fixed.ok THEN <<r.fixed.q>> ELSE << >>)
             \o ValidQuestions(Tail(questions_data), metrics))

\* GenerateQuestions without the "if not metrics" return of lines 507-509
GenerateQuestionsAnyMetrics(client, country_data, count, response) ==
    IF ~client THEN << >>
    ELSE Bind(ExtractMetrics(country_data), LAMBDA metrics :
             IF response.kind # "ok" THEN << >>
             ELSE IF LoopRaises(response.questions) THEN << >>
             ELSE ValidQuestions(response.questions, metrics))

\* which return of generate_questions a call takes
BackendOutcome(client, country_data, response) ==
    IF ~client THEN "no_client"
    ELSE IF ExtractMetrics(country_data) = << >> THEN "no_metrics"
    ELSE IF response.kind # "ok" THEN response.kind
    ELSE IF LoopRaises(response.questions) THEN "raised"
    ELSE "loop"

\* AIQuestionGenerator.generate_questions.  client: whether the OpenAI client
\* could be made; response: what the API call and json.loads gave, kind "ok"
\* with the "questions" array, or "api_error", or "bad_json".  count goes into
\* the prompt and max_tokens only.
GenerateQuestions(client, country_data, count, response) ==
    IF ~client THEN << >>
    ELSE Bind(ExtractMetrics(country_data), LAMBDA metrics :
             IF metrics = << >> THEN << >>
             ELSE IF response.kind # "ok" THEN << >>
             ELSE IF LoopRaises(response.questions) THEN << >>
             ELSE ValidQuestions(response.questions, metrics))

\* -------------------------------------------- template_generator.py

\* the set S as an ascending sequence: sorted(set(...))
RECURSIVE SortedSeq(_)
SortedSeq(S) == IF S = {} THEN << >>
                ELSE Bind(Least(S), LAMBDA m : <<m>> \o SortedSeq(S \ {m}))

\* correct_value * (1 + pct) for pct in hundredths; dataset values have at
\* most two decimals, so the product is exact
TimesPercent(correct_value, percent) == (correct_value \div 100) * percent

\* the "variations" list of _generate_plausible_choices before sampling
Variations(correct_value) ==
    LET pcts == {TimesPercent(correct_value, 100 + pct) : pct \in {0 - 30, 0 - 15, 15, 30}}
        small == IF correct_value < 10 * Unit
                 THEN {correct_value - 2 * Unit, correct_value - Unit,
                       correct_value + Unit, correct_value + 2 * Unit}
                 ELSE {}
        positive == {v \in pcts \cup small : v > 0}
    IN  Bind({RoundHalfEven(v, Unit \div 10) :
                v \in {w \in positive : Abs(w - correct_value) > Unit \div 10}},
             LAMBDA rounded : SortedSeq(rounded))

\* the orders random.sample(population of n, k) can give: k distinct positions
SamplePicks(n, k) ==
    {p \in [1..k -> 1..n] : \A i, j \in 1..k : i # j => p[i] # p[j]}

\* the orders random.shuffle can give a list of n
ShuffleOrders(n) == SamplePicks(n, n)

\* one turn of the "while len(wrong_values) < count - 1" loop, the factor
\* random.uniform(0.5, 1.5) given in hundredths
TopUpStep(wrong_values, correct_value, factor) ==
    Bind(TimesPercent(correct_value, factor), LAMBDA new_val :
        IF Abs(new_val - correct_value) > Unit \div 10
           /\ ~InSeq(new_val, wrong_values)
        THEN Append(wrong_values, RoundHalfEven(new_val, Unit \div 10))
        ELSE wrong_values)

\* the loop, run on a given sequence of factors; it ends when there are
\* count - 1 wrong values, and is still running when the factors run out
RECURSIVE TopUp(_, _, _, _)
TopUp(wrong_values, correct_value, count, factors) ==
    IF Len(wrong_values) >= count - 1 \/ factors = << >> THEN wrong_values
    ELSE Bind(TopUpStep(wrong_values, correct_value, Head(factors)), LAMBDA topped :
             TopUp(topped, correct_value, count, Tail(factors)))

\* format_choice(val) of _generate_plausible_choices
FormatChoice(val, metric_info) ==
    Bind(FormatNum(val, metric_info.format), LAMBDA formatted :
        IF metric_info.unit # << >> /\ ~IsSubstr(metric_info.unit, formatted)
        THEN formatted \o <<" ">> \o metric_info.unit
        ELSE formatted)

\* all_values.index(correct_value), 0-based
IndexOf(all_values, x) == (CHOOSE i \in 1..Len(all_values) :
                              all_values[i] = x /\ \A j \in 1..(i - 1) : all_values[j] # x) - 1

\* ShuffleAndFormat that takes the index before the shuffle
ShuffleAndFormatIndexFirst(wrong_values, correct_value, metric_info, count, order) ==
    Bind(SubSeq(wrong_values, 1, count - 1) \o <<correct_value>>, LAMBDA listed :
    Bind(Eager([i \in 1..Len(listed) |-> listed[order[i]]]), LAMBDA all_values :
        [choices |-> Eager([i \in 1..Len(all_values) |->
                              FormatChoice(all_values[i], metric_info)]),
         correct_index |-> IndexOf(listed, correct_value),
         all_values |-> all_values]))

\* the end of _generate_plausible_choices: shuffle, format, index
ShuffleAndFormat(wrong_values, correct_value, metric_info, count, order) ==
    Bind(SubSeq(wrong_values, 1, count - 1) \o <<correct_value>>, LAMBDA listed :
    Bind(Eager([i \in 1..Len(listed) |-> listed[order[i]]]), LAMBDA all_values :
        [choices |-> Eager([i \in 1..Len(all_values) |->
                              FormatChoice(all_values[i], metric_info)]),
         correct_index |-> IndexOf(all_values, correct_value),
         all_values |-> all_values]))

\* TemplateQuestionGenerator._generate_plausible_choices with the outcomes of
\* its random calls given: picks for random.sample, factors for the
\* random.uniform calls of the loop, order for random.shuffle.  done is
\* whether the loop ended with these factors.
GeneratePlausibleChoices(correct_value, metric_info, count, picks, factors, order) ==
    Bind(Variations(correct_value), LAMBDA variations :
    Bind(Eager([i \in 1..Len(picks) |-> variations[picks[i]]]), LAMBDA sampled :
    Bind(TopUp(sampled, correct_value, count, factors), LAMBDA wrong_values :
        IF Len(wrong_values) < count - 1
        THEN [done |-> FALSE, choices |-> << >>, correct_index |-> 0]
        ELSE Bind(ShuffleAndFormat(wrong_values, correct_value, metric_info, count, order),
                  LAMBDA r :
                 [done |-> TRUE, choices |-> r.choices,
                  correct_index |-> r.correct_index]))))

\* TemplateQuestionGenerator._find_metric_value: [found, value, year]
FindMetricValue(country_data, metric_key) ==
    Bind({c \in 1..Len(country_data) :
             /\ HasKey(country_data[c].metrics, metric_key)
             /\ IsValueDict(GetKey(country_data[c].metrics, metric_key))},
         LAMBDA cs :
        IF cs = {} THEN [found |-> FALSE, value |-> 0, year |-> 0]
        ELSE Bind(GetKey(country_data[Least(cs)].metrics, metric_key), LAMBDA metric :
                 [found |-> TRUE, value |-> metric.value, year |-> metric.year]))

\* DATASET_TO_MODEL_CATEGORY.get(dataset_category, "mental")
ModelCategory(dataset_category) ==
    LET hits == {i \in 1..Len(DATASET_TO_MODEL_CATEGORY) :
                    DATASET_TO_MODEL_CATEGORY[i].dataset = dataset_category}
    IN  IF hits = {} THEN <<"m","e","n","t","a","l">>
        ELSE DATASET_TO_MODEL_CATEGORY[CHOOSE i \in hits : TRUE].model

\* available_metrics of generate_value_question: positions in TEMPLATE_METRICS
AvailableMetrics(country_data) ==
    SelectSeq([i \in 1..Len(TEMPLATE_METRICS) |-> i],
              LAMBDA i : FindMetricValue(country_data, TEMPLATE_METRICS[i].key).found)

NoQuestion == [ok |-> FALSE, done |-> TRUE]

YearSuffix(lead, year) == IF year # 0 THEN lead \o IntToStr(year) \o <<")">> ELSE << >>

\* The random module is a generator whose state decides every outcome.  A
\* request's generator state is the draw seed; the outcomes below are those
\* of one state: random.choice takes the position seed (mod n),
\* random.sample the k positions that follow it, random.shuffle rotates by
\* it, and random.uniform gives the factors in turn.
SeedChoice(seed, n) == (seed % n) + 1

SeedPicks(seed, n, k) == [i \in 1..k |-> ((seed + i - 1) % n) + 1]

SeedOrder(seed, n) == [i \in 1..n |-> ((seed + i - 1) % n) + 1]

UniformFactors == <<50, 75, 125, 150, 100>>

SeedFactors(seed) == [i \in 1..Len(UniformFactors) |->
                         UniformFactors[((seed + i - 1) % Len(UniformFactors)) + 1]]

\* TemplateQuestionGenerator.generate_value_question, its random calls
\* decided by seed.  done is FALSE when the loop of
\* _generate_plausible_choices does not end.
GenerateValueQuestion(country_name, country_data, seed) ==
    Bind(AvailableMetrics(country_data), LAMBDA available_metrics :
    IF available_metrics = << >> THEN NoQuestion
    ELSE
    Bind(TEMPLATE_METRICS[available_metrics[SeedChoice(seed, Len(available_metrics))]],
         LAMBDA metric_info :
    Bind(FindMetricValue(country_data, metric_info.key), LAMBDA found :
    Bind(Len(Variations(found.value)), LAMBDA n :
    Bind(GeneratePlausibleChoices(found.value, metric_info, 4,
                                  SeedPicks(seed, n, Min(3, n)),
                                  SeedFactors(seed), SeedOrder(seed, 4)),
         LAMBDA made :
             [ok |-> TRUE,
              done |-> made.done,
              prompt |-> <<"W","h","a","t"," ","i","s"," ","t","h","e"," ">> \o metric_info.display_name \o <<" ","i","n"," ">>
                         \o country_name
                         \o (IF found.year # 0
                             THEN <<" ","(","a","s"," ","o","f"," ">> \o IntToStr(found.year) \o <<")","?">>
                             ELSE <<"?">>),
              choices |-> made.choices,
              correct_index |-> made.correct_index,
              difficulty |-> 1,
              category_name |-> ModelCategory(metric_info.category),
              explanation |-> <<"T","h","e"," ">> \o metric_info.display_name \o <<" ","i","n"," ">>
                              \o country_name \o <<" ","i","s"," ">>
                              \o FormatNum(found.value, metric_info.format)
                              \o <<" ">> \o metric_info.unit \o <<".">>
                              \o YearSuffix(<<" ","(","D","a","t","a"," ","f","r","o","m"," ">>, found.year),
              source |-> "dataset"])))))

TemplateMetric(metric_key) ==
    TEMPLATE_METRICS[CHOOSE i \in 1..Len(TEMPLATE_METRICS) : TEMPLATE_METRICS[i].key = metric_key]

comparable_pairs == <<
    <<<<"l","i","f","e","_","e","x","p","e","c","t","a","n","c","y","_","f","e","m","a","l","e">>, <<"l","i","f","e","_","e","x","p","e","c","t","a","n","c","y","_","m","a","l","e">>>>,
    <<<<"l","i","t","e","r","a","c","y","_","r","a","t","e","_","a","d","u","l","t">>, <<"i","n","t","e","r","n","e","t","_","u","s","e","r","s">>>>
  >>

\* f"{name.title()} ({value:.1f}%)"
ComparisonChoice(name, value) ==
    Title(name) \o <<" ","(">> \o FormatOneDecimal(value) \o <<"%",")">>

\* TemplateQuestionGenerator.generate_comparison_question: the first pair
\* with both values and equal units.  random.shuffle(choices[:2]) shuffles a
\* copy, so the choices keep their order.
GenerateComparisonQuestion(country_name, country_data) ==
    LET Usable(p) ==
            /\ FindMetricValue(country_data, comparable_pairs[p][1]).found
            /\ FindMetricValue(country_data, comparable_pairs[p][2]).found
            /\ TemplateMetric(comparable_pairs[p][1]).unit
                 = TemplateMetric(comparable_pairs[p][2]).unit
        ps == {p \in 1..Len(comparable_pairs) : Usable(p)}
        p0 == CHOOSE p \in ps : \A q \in ps : p <= q
        value1 == FindMetricValue(country_data, comparable_pairs[p0][1]).value
        value2 == FindMetricValue(country_data, comparable_pairs[p0][2]).value
        name1 == TemplateMetric(comparable_pairs[p0][1]).display_name
        name2 == TemplateMetric(comparable_pairs[p0][2]).display_name
        choices == <<ComparisonChoice(name1, value1), ComparisonChoice(name2, value2),
                     <<"T","h","e","y"," ","a","r","e"," ","e","q","u","a","l">>, <<"D","a","t","a"," ","n","o","t"," ","a","v","a","i","l","a","b","l","e">>>>
        first == IF value1 > value2 THEN 1 ELSE 2
        Clause(n, v) == n \o <<" ","(">> \o FormatOneDecimal(v) \o <<"%",")">>
    IN  IF ps = {} THEN NoQuestion
        ELSE [ok |-> TRUE,
              done |-> TRUE,
              prompt |-> <<"I","n"," ">> \o country_name \o <<","," ","w","h","i","c","h"," ","m","e","t","r","i","c"," ","h","a","s"," ","a"," ","h","i","g","h","e","r"," ","v","a","l","u","e","?">>,
              choices |-> choices,
              correct_index |-> IndexOf(choices, choices[first]),
              difficulty |-> 2,
              category_name |-> <<"m","e","n","t","a","l">>,
              explanation |-> <<"I","n"," ">> \o country_name \o <<","," ">>
                              \o (IF value1 > value2
                                  THEN Clause(name1, value1) \o <<" ","i","s"," ","h","i","g","h","e","r"," ","t","h","a","n"," ">>
                                       \o Clause(name2, value2)
                                  ELSE Clause(name2, value2) \o <<" ","i","s"," ","h","i","g","h","e","r"," ","t","h","a","n"," ">>
                                       \o Clause(name1, value1))
                              \o <<".">>,
              source |-> "dataset"]

\* TemplateQuestionGenerator.get_country_data: self.dataset.get(country_name)
\* on a dataset given as a sequence of [name, data]
GetCountryData(dataset, country_name) ==
    LET hits == {i \in 1..Len(dataset) : dataset[i].name = country_name}
    IN  IF hits = {} THEN [found |-> FALSE, data |-> << >>]
        ELSE [found |-> TRUE, data |-> dataset[CHOOSE i \in hits : TRUE].data]

\* "if country_data": neither None nor an empty mapping
Truthy(country_data) == country_data.found /\ country_data.data # << >>

\* SliceLen of a slice that takes the whole list
SliceLenWhole(n, count) == n

\* len(xs[:count]) for a list of n
SliceLen(n, count) == IF count < 0 THEN Max(n + count, 0) ELSE Min(count, n)

\* TemplateQuestionGenerator.generate_questions: generators[:count] are two
\* value questions and one comparison question; the i-th random-using call
\* of the request continues the generator state (seed + i - 1).
TemplateGenerateQuestions(dataset, country_name, count, seed) ==
    Bind(GetCountryData(dataset, country_name), LAMBDA country_data :
        IF ~Truthy(country_data) THEN << >>
        ELSE LET Generator(i) ==
                     IF i = 3
                     THEN GenerateComparisonQuestion(country_name, country_data.data)
                     ELSE GenerateValueQuestion(country_name, country_data.data,
                                                seed + i - 1)
             IN  Bind(Eager([i \in 1..SliceLen(3, count) |-> Generator(i)]), LAMBDA made :
                     SelectSeq(made, LAMBDA question : question.ok)))

\* whether every loop of the round's template questions ends
TemplateTerminates(dataset, country_name, count, seed) ==
    Bind(GetCountryData(dataset, country_name), LAMBDA country_data :
        ~Truthy(country_data)
        \/ \A i \in 1..Min(SliceLen(3, count), 2) :
              GenerateValueQuestion(country_name, country_data.data, seed + i - 1).done)

\* -------------------------------------------- question_generator.py

QUESTIONS_POOL_SIZE == 10

QUESTIONS_PER_QUIZ == 5

\* models.py, Category.Names
CategoryNames == {<<"p","h","y","s","i","c","a","l">>, <<"m","e","n","t","a","l">>, <<"e","c","o","n","o","m","i","c">>, <<"e","n","v","i","r","o","n","m","e","n","t","a","l">>}

\* QuestionGenerator.get_or_create_category: the name of the row
GetOrCreateCategory(category_name) ==
    IF Lower(category_name) \notin CategoryNames THEN <<"m","e","n","t","a","l">> ELSE Lower(category_name)

\* GetAlternateNames without the reverse mapping of lines 97-101
GetAlternateNamesForward(country_name) ==
    LET Mapped(i) == IF name_variants[i].name = country_name
                     THEN name_variants[i].variants ELSE << >>
    IN  <<country_name, Eager(Title(country_name)), Eager(Upper(country_name))>>
        \o Concat([i \in 1..Len(name_variants) |-> Mapped(i)])

\* QuestionGenerator._get_alternate_names
GetAlternateNames(country_name) ==
    LET Mapped(i) == IF name_variants[i].name = country_name
                     THEN name_variants[i].variants ELSE << >>
        Reverse(i) == IF InSeq(country_name, name_variants[i].variants)
                      THEN <<name_variants[i].name>> \o name_variants[i].variants
                      ELSE << >>
    IN  <<country_name, Eager(Title(country_name)), Eager(Upper(country_name))>>
        \o Concat([i \in 1..Len(name_variants) |-> Mapped(i)])
        \o Concat([i \in 1..Len(name_variants) |-> Reverse(i)])

NotResolved == [found |-> FALSE, name |-> << >>, data |-> << >>]

\* ResolveCountryData that takes the first entry of the dataset when no name
\* has data
ResolveCountryDataDefault(dataset, country_name) ==
    IF Truthy(GetCountryData(dataset, country_name))
    THEN [found |-> TRUE, name |-> country_name,
          data |-> GetCountryData(dataset, country_name).data]
    ELSE [found |-> TRUE, name |-> dataset[1].name, data |-> dataset[1].data]

\* generate_for_country, lines 199-209: the country's own name, then the
\* alternate names in order, the first that has data
ResolveCountryData(dataset, country_name) ==
    IF Truthy(GetCountryData(dataset, country_name))
    THEN [found |-> TRUE, name |-> country_name,
          data |-> GetCountryData(dataset, country_name).data]
    ELSE Bind(GetAlternateNames(country_name), LAMBDA alternate_names :
         Bind({i \in 1..Len(alternate_names) :
                 Truthy(GetCountryData(dataset, alternate_names[i]))}, LAMBDA hits :
             IF hits = {} THEN NotResolved
             ELSE [found |-> TRUE, name |-> alternate_names[Least(hits)],
                   data |-> GetCountryData(dataset, alternate_names[Least(hits)]).data]))

\* models.py, Question: the columns a Question row can be created with
QuestionColumns == {"country", "category", "prompt", "choices", "correct_index",
                    "difficulty", "source", "explanation", "fact",
                    "created_at", "updated_at", "id"}

\* the keyword arguments of Question.objects.create in _save_template_question
SaveTemplateKwargs == {"country", "category", "prompt", "choices", "correct_index",
                       "difficulty", "explanation", "source"}

\* the keyword arguments of Question.objects.create in _save_ai_question
SaveAiKwargs == {"country", "category", "prompt", "choices", "correct_index",
                 "difficulty", "explanation", "did_you_know", "surprising_fact",
                 "insight", "source"}

\* CreateAccepts of a model that takes any keyword
CreateAcceptsAny(kwargs) == TRUE

\* Model.__init__ raises TypeError for a keyword that is no column
CreateAccepts(kwargs) == kwargs \subseteq QuestionColumns

\* SaveTemplateQuestion with the source of _save_ai_question
SaveTemplateQuestionAsAi(gen_question) ==
    [ok |-> CreateAccepts(SaveTemplateKwargs),
     row |-> [id |-> 0,
              category |-> GetOrCreateCategory(gen_question.category_name),
              prompt |-> gen_question.prompt,
              choices |-> gen_question.choices,
              correct_index |-> gen_question.correct_index,
              difficulty |-> gen_question.difficulty,
              explanation |-> gen_question.explanation,
              source |-> "ai"]]

\* QuestionGenerator._save_template_question: ok is whether create() takes
\* the keyword arguments, row the instance (id 0: not yet stored)
SaveTemplateQuestion(gen_question) ==
    [ok |-> CreateAccepts(SaveTemplateKwargs),
     row |-> [id |-> 0,
              category |-> GetOrCreateCategory(gen_question.category_name),
              prompt |-> gen_question.prompt,
              choices |-> gen_question.choices,
              correct_index |-> gen_question.correct_index,
              difficulty |-> gen_question.difficulty,
              explanation |-> gen_question.explanation,
              source |-> "dataset"]]

\* QuestionGenerator._save_ai_question
SaveAiQuestion(ai_question) ==
    [ok |-> CreateAccepts(SaveAiKwargs),
     row |-> [id |-> 0,
              category |-> GetOrCreateCategory(<<"m","e","n","t","a","l">>),
              prompt |-> ai_question.prompt,
              choices |-> ai_question.choices,
              correct_index |-> ai_question.correct_index,
              difficulty |-> 2,
              explanation |-> ai_question.explanation,
              did_you_know |-> ai_question.did_you_know,
              surprising_fact |-> ai_question.surprising_fact,
              source |-> "ai"]]

\* random.sample(questions, k), the generator in state seed
RandomSample(questions, k, seed) ==
    LET picks == SeedPicks(seed, Len(questions), k)
    IN  [i \in 1..k |-> questions[picks[i]]]

\* The "for ... try: save ... except" loops of generate_for_country under
\* @transaction.atomic.  saves are the results of the save calls in order, a
\* row getting the id that follows the stored rows; db_fail = 0 is a round
\* without database error, db_fail = k > 0 one whose k-th INSERT fails:
\* inside the atomic block that error marks the transaction for rollback,
\* every later query of the block raises as well, and the block rolls back
\* on exit.  A TypeError of Model.__init__ touches no transaction.
RECURSIVE SaveLoop(_, _, _, _)
SaveLoop(saves, next_id, inserts, db_fail) ==
    IF saves = << >> THEN [new_questions |-> << >>, inserts |-> inserts]
    ELSE LET saved == Head(saves)
             broken == db_fail # 0 /\ inserts + 1 >= db_fail
             kept == saved.ok /\ ~broken
         IN  Bind(SaveLoop(Tail(saves),
                           IF kept THEN next_id + 1 ELSE next_id,
                           IF saved.ok THEN inserts + 1 ELSE inserts, db_fail),
                  LAMBDA rest :
                 [new_questions |-> (IF kept THEN <<[saved.row EXCEPT !.id = next_id]>>
                                     ELSE << >>) \o rest.new_questions,
                  inserts |-> rest.inserts])

\* the INSERTs a round attempts: one for every save call that gets past
\* Model.__init__
InsertsOf(ai_questions, template_questions) ==
    IF ai_questions # << >>
    THEN (IF CreateAccepts(SaveAiKwargs) THEN Len(ai_questions) ELSE 0)
    ELSE (IF CreateAccepts(SaveTemplateKwargs) THEN Len(template_questions) ELSE 0)

\* PoolIsFull with > for >=
PoolIsFullAbove(all_cached) == Len(all_cached) > QUESTIONS_POOL_SIZE

\* line 191: len(all_cached) >= self.QUESTIONS_POOL_SIZE
PoolIsFull(all_cached) == Len(all_cached) >= QUESTIONS_POOL_SIZE

\* StoredAfter with a rollback that also loses the rows stored before
StoredAfterLosing(all_cached, new_questions, rolled_back) ==
    IF rolled_back THEN << >> ELSE all_cached \o new_questions

\* StoredAfter with a rollback that undoes the round's last INSERT only
StoredAfterPartial(all_cached, new_questions, rolled_back) ==
    IF rolled_back /\ new_questions # << >>
    THEN all_cached \o SubSeq(new_questions, 1, Len(new_questions) - 1)
    ELSE all_cached \o new_questions

\* the country's stored rows when the atomic block of generate_for_country is
\* left: a rollback undoes the round's INSERTs
StoredAfter(all_cached, new_questions, rolled_back) ==
    IF rolled_back THEN all_cached ELSE all_cached \o new_questions

\* QuestionGenerator.generate_for_country on the stored pool all_cached.
\* country_data is what lines 199-209 resolve; ai_questions is what
\* ai_generator.generate_questions returns when called, template_questions
\* what template_generator.generate_questions returns when called; seed is
\* the random generator's state and db_fail as in SaveLoop.  The result names
\* what the call did: questions is what it returns, pool the stored rows
\* after it; backend is for the caller to fill in (see BackendOutcome).
GenerateForCountry(all_cached, country_data, ai_questions, template_questions, seed, db_fail) ==
    LET questions_needed == QUESTIONS_POOL_SIZE - Len(all_cached)
        base == [kind |-> "full", error |-> "None", status |-> 0,
                 cached |-> Len(all_cached), needed |-> 0,
                 resolved |-> << >>, ai_called |-> FALSE, backend |-> "none",
                 ai_returned |-> 0,
                 template_called |-> FALSE, template_returned |-> 0,
                 new_questions |-> << >>, committed |-> TRUE,
                 questions |-> << >>, pool |-> all_cached]
    IN
    IF PoolIsFull(all_cached)
    THEN [base EXCEPT !.questions = RandomSample(all_cached, QUESTIONS_PER_QUIZ, seed)]
    ELSE IF ~country_data.found
    THEN [base EXCEPT
            !.kind = "unresolved", !.needed = questions_needed,
            !.questions = IF all_cached # << >>
                          THEN RandomSample(all_cached,
                                            Min(Len(all_cached), QUESTIONS_PER_QUIZ), seed)
                          ELSE << >>]
    ELSE
    Bind(IF ai_questions # << >>
         THEN Eager([i \in 1..Len(ai_questions) |-> SaveAiQuestion(ai_questions[i])])
         ELSE Eager([i \in 1..Len(template_questions) |->
                       SaveTemplateQuestion(template_questions[i])]),
         LAMBDA saves :
    Bind(SaveLoop(saves, Len(all_cached) + 1, 0, db_fail), LAMBDA saved :
    Bind(db_fail # 0 /\ saved.inserts >= db_fail, LAMBDA rolled_back :
    Bind(all_cached \o saved.new_questions, LAMBDA all_questions :
        [base EXCEPT
            !.kind = "generated", !.needed = questions_needed,
            !.resolved = country_data.name,
            !.ai_called = TRUE,
            !.ai_returned = Len(ai_questions),
            !.template_called = (ai_questions = << >>),
            !.template_returned = IF ai_questions = << >>
                                  THEN Len(template_questions) ELSE 0,
            !.new_questions = saved.new_questions,
            !.committed = ~rolled_back,
            !.questions = RandomSample(all_questions,
                                       Min(Len(all_questions), QUESTIONS_PER_QUIZ), seed),
            !.pool = StoredAfter(all_cached, saved.new_questions, rolled_back)]))))

\* whether generate_for_country gets as far as its generators (line 217)
Generates(all_cached, country_data) ==
    ~PoolIsFull(all_cached) /\ country_data.found

\* GetQuestionsForCountry that makes an empty list an error
GetQuestionsForCountryNonEmpty(country_found, questions) ==
    IF ~country_found
    THEN [questions |-> << >>, error |-> "Country not found"]
    ELSE IF questions = << >>
    THEN [questions |-> << >>, error |-> "No questions"]
    ELSE [questions |-> questions, error |-> "None"]

\* QuestionGenerator.get_questions_for_country: (questions, error).
\* country_found is whether get_country_by_code finds a row; questions is what
\* generate_for_country returns (no path of it as modelled raises, so the
\* except branch of lines 283-285 is not taken)
GetQuestionsForCountry(country_found, questions) ==
    IF ~country_found
    THEN [questions |-> << >>, error |-> "Country not found"]
    ELSE [questions |-> questions, error |-> "None"]

\* views.get_quiz on the (questions, error) of get_questions_for_country for
\* an existing country row: 404 for an error or no questions; otherwise it
\* reads q.surprising_fact, q.did_you_know and q.insight of every row
GetQuiz(questions, error) ==
    IF error # "None" THEN 404
    ELSE IF questions = << >> THEN 404
    ELSE IF {"surprising_fact", "did_you_know", "insight"} \subseteq QuestionColumns
    THEN 200
    ELSE 500

\* ------------------------------------------------------ the inputs

\* the float i + c/100
Num(i, c) == i * Unit + c * 100

Metric(key, value, year) ==
    [key |-> key, value |-> value, year |-> year, is_dict |-> TRUE,
     has_value |-> TRUE, value_type |-> "float", year_type |-> "int"]

\* Dataset entries as build_trivia_db.py writes them: the five categories,
\* each metric {value, year}.
BhutanData == <<
    [name |-> <<"P","e","o","p","l","e"," ","&"," ","S","o","c","i","e","t","y">>, metrics |-> << >>],
    [name |-> <<"E","c","o","n","o","m","y">>,
     metrics |-> <<Metric(<<"g","d","p","p","e","r","c","a","p","i","t","a","_","u","s","_","i","n","f","l","a","t","i","o","n","_","a","d","j","u","s","t","e","d">>, Num(2300, 0), 2021)>>],
    [name |-> <<"H","e","a","l","t","h">>,
     metrics |-> <<Metric(<<"l","i","f","e","_","e","x","p","e","c","t","a","n","c","y","_","f","e","m","a","l","e">>, Num(73, 20), 2021),
                   Metric(<<"l","i","f","e","_","e","x","p","e","c","t","a","n","c","y","_","m","a","l","e">>, Num(70, 10), 2021)>>],
    [name |-> <<"E","n","v","i","r","o","n","m","e","n","t">>,
     metrics |-> <<Metric(<<"f","o","r","e","s","t","_","c","o","v","e","r","a","g","e","_","p","e","r","c","e","n","t">>, Num(72, 0), 2020)>>],
    [name |-> <<"G","e","o","g","r","a","p","h","y"," ","&"," ","P","h","y","s","i","c","a","l">>,
     metrics |-> <<Metric(<<"p","o","p","u","l","a","t","i","o","n","_","d","e","n","s","i","t","y","_","p","e","r","_","s","q","u","a","r","e","_","k","m">>, Num(4, 0), 2022)>>]
  >>

SmallData(le_female, density) == <<
    [name |-> <<"P","e","o","p","l","e"," ","&"," ","S","o","c","i","e","t","y">>, metrics |-> << >>],
    [name |-> <<"E","c","o","n","o","m","y">>, metrics |-> << >>],
    [name |-> <<"H","e","a","l","t","h">>,
     metrics |-> <<Metric(<<"l","i","f","e","_","e","x","p","e","c","t","a","n","c","y","_","f","e","m","a","l","e">>, le_female, 2021)>>],
    [name |-> <<"E","n","v","i","r","o","n","m","e","n","t">>, metrics |-> << >>],
    [name |-> <<"G","e","o","g","r","a","p","h","y"," ","&"," ","P","h","y","s","i","c","a","l">>,
     metrics |-> <<Metric(<<"p","o","p","u","l","a","t","i","o","n","_","d","e","n","s","i","t","y","_","p","e","r","_","s","q","u","a","r","e","_","k","m">>, density, 2022)>>]
  >>

\* an entry whose only metric is older than 15 years
OldData == <<
    [name |-> <<"P","e","o","p","l","e"," ","&"," ","S","o","c","i","e","t","y">>, metrics |-> << >>],
    [name |-> <<"E","c","o","n","o","m","y">>, metrics |-> << >>],
    [name |-> <<"H","e","a","l","t","h">>,
     metrics |-> <<Metric(<<"l","i","f","e","_","e","x","p","e","c","t","a","n","c","y","_","f","e","m","a","l","e">>, Num(62, 30), 2005)>>],
    [name |-> <<"E","n","v","i","r","o","n","m","e","n","t">>, metrics |-> << >>],
    [name |-> <<"G","e","o","g","r","a","p","h","y"," ","&"," ","P","h","y","s","i","c","a","l">>, metrics |-> << >>]
  >>

\* an entry with a metric below 0.2: 0.04 doctors per 1000 people
FewDoctorsData == <<
    [name |-> <<"P","e","o","p","l","e"," ","&"," ","S","o","c","i","e","t","y">>, metrics |-> << >>],
    [name |-> <<"E","c","o","n","o","m","y">>, metrics |-> << >>],
    [name |-> <<"H","e","a","l","t","h">>,
     metrics |-> <<Metric(<<"l","i","f","e","_","e","x","p","e","c","t","a","n","c","y","_","f","e","m","a","l","e">>, Num(62, 0), 2021),
                   Metric(<<"m","e","d","i","c","a","l","_","d","o","c","t","o","r","s","_","p","e","r","_","1","0","0","0","_","p","e","o","p","l","e">>, Num(0, 4), 2021)>>],
    [name |-> <<"E","n","v","i","r","o","n","m","e","n","t">>, metrics |-> << >>],
    [name |-> <<"G","e","o","g","r","a","p","h","y"," ","&"," ","P","h","y","s","i","c","a","l">>, metrics |-> << >>]
  >>

\* the loaded dataset: country name -> entry
Dataset == <<
    [name |-> <<"B","h","u","t","a","n">>, data |-> BhutanData],
    [name |-> <<"C","o","t","e"," ","d","'","I","v","o","i","r","e">>, data |-> SmallData(Num(60, 10), Num(84, 0))],
    [name |-> <<"G","a","m","b","i","a">>, data |-> SmallData(Num(64, 0), Num(240, 0))],
    [name |-> <<"K","o","r","e","a",","," ","R","e","p",".">>, data |-> SmallData(Num(86, 0), Num(530, 0))],
    [name |-> <<"N","a","u","r","u">>, data |-> OldData],
    [name |-> <<"N","i","g","e","r">>, data |-> FewDoctorsData]
  >>

\* Country rows (Country.name) a quiz is asked for
Countries == {<<"B","h","u","t","a","n">>, <<"b","h","u","t","a","n">>, <<"I","v","o","r","y"," ","C","o","a","s","t">>, <<"G","a","m","b","i","a",","," ","T","h","e">>, <<"K","o","r","e","a">>,
              <<"N","a","u","r","u">>, <<"A","t","l","a","n","t","i","s">>}

\* Question rows stored before the first request (entered through the admin)
ManualQuestion(i) ==
    [id |-> i, category |-> <<"m","e","n","t","a","l">>,
     prompt |-> <<"M","a","n","u","a","l"," ","q","u","e","s","t","i","o","n"," ">> \o IntToStr(i),
     choices |-> <<<<"A">>, <<"B">>, <<"C">>, <<"D">>>>,
     correct_index |-> i % 4, difficulty |-> 1, explanation |-> << >>,
     source |-> "manual"]

ManualPool(n) == [i \in 1..n |-> ManualQuestion(i)]

InitPoolSizes == {0, 2, 6}

AllFields == {"prompt", "choices", "correct_index", "explanation",
              "surprising_fact", "did_you_know"}

\* a well-formed raw draft of the backend
RawDraft(prompt, choices, correct_index, explanation) ==
    [has |-> AllFields, prompt_type |-> "str", prompt |-> prompt,
     choices_type |-> "list", choices |-> choices,
     ci_type |-> "int", correct_index |-> correct_index,
     explanation |-> explanation, surprising_fact |-> << >>, did_you_know |-> << >>]

PromptGdp == <<"W","h","a","t"," ","w","a","s"," ","t","h","e"," ","G","D","P"," ","p","e","r"," ","c","a","p","i","t","a"," ","o","f"," ","B","h","u","t","a","n"," ","i","n"," ","2","0","2","1","?">>

PromptForest == <<"A","s"," ","o","f"," ","2","0","2","0",","," ","w","h","a","t"," ","p","e","r","c","e","n","t","a","g","e"," ","o","f"," ","B","h","u","t","a","n"," ","i","s"," ","c","o","v","e","r","e","d"," ","b","y"," ","f","o","r","e","s","t","?">>

PromptDensity == <<"W","h","a","t"," ","i","s"," ","t","h","e"," ","p","o","p","u","l","a","t","i","o","n"," ","d","e","n","s","i","t","y"," ","o","f"," ","B","h","u","t","a","n","?">>

PromptCapital == <<"W","h","a","t"," ","i","s"," ","t","h","e"," ","c","a","p","i","t","a","l"," ","o","f"," ","B","h","u","t","a","n","?">>

Prompts == {PromptGdp, PromptForest, PromptDensity, PromptCapital}

ChoicesPlain == <<<<"1","9","0","0">>, <<"2","1","0","0">>, <<"2","3","0","0">>, <<"2","6","0","0">>>>

ChoicesDollar == <<<<"$","1",",","9","0","0">>, <<"$","2",",","1","0","0">>, <<"$","2",",","3","0","0">>, <<"$","2",",","6","0","0">>>>

ChoicesDecimalPercent == <<<<"7","0",".","6","%">>, <<"7","1",".","2","%">>, <<"7","2","%">>, <<"7","5","%">>>>

ChoicesPercent == <<<<"4","5","%">>, <<"6","0","%">>, <<"7","1","%">>, <<"8","0","%">>>>

ChoicesWords == <<<<"l","o","w">>, <<"m","e","d","i","u","m">>, <<"h","i","g","h">>, <<"v","e","r","y"," ","h","i","g","h">>>>

ChoicesDensity == <<<<"2"," ","p","e","r"," ","k","m","<^2>">>, <<"4"," ","p","e","r"," ","k","m","<^2>">>, <<"7"," ","p","e","r"," ","k","m","<^2>">>, <<"9"," ","p","e","r"," ","k","m","<^2>">>>>

ChoicesHalves == <<<<"3",".","5">>, <<"4",".","4">>, <<"8">>, <<"1","2">>>>

ChoicesSigned == <<<<"-","5">>, <<"+","5">>, <<"1","5">>, <<"2","5">>>>

ChoicesFar == <<<<"4","0","%">>, <<"6","0","%">>, <<"8","5","%">>, <<"9","5","%">>>>

ChoicesThree == <<<<"4","5","%">>, <<"6","0","%">>, <<"7","1","%">>>>

ChoicesRepeated == <<<<"1","0","%">>, <<"1","0","%">>, <<"2","0","%">>, <<"3","0","%">>>>

ChoicesPadded == <<<<" ","1","0","%">>, <<"1","0","%"," ">>, <<"2","0","%">>, <<"3","0","%">>>>

ChoicesOdd == <<<<"1",".","5",".","2">>, <<"2",".","5"," ","t","o"," ","3",".","5">>, <<"<EUR>","7",".">>, <<"<GBP>","0",".","5"," ","%">>>>

ChoiceLists == {ChoicesPlain, ChoicesDollar, ChoicesDecimalPercent, ChoicesPercent,
                ChoicesWords, ChoicesDensity, ChoicesHalves, ChoicesSigned,
                ChoicesFar, ChoicesThree, ChoicesRepeated, ChoicesPadded}

Explanations == {<< >>, <<"A","b","o","u","t"," ","7","0",".","5","%"," ","(","n","o","t"," ","1","2","%",")"," ","o","f"," ","t","h","e"," ","l","a","n","d"," ","i","s"," ","f","o","r","e","s","t",","," ","7","1"," ","i","n"," ","a","l","l",".">>}

GoodDraft == RawDraft(PromptForest, ChoicesPercent, 2, << >>)

\* "choices": null
NullChoicesDraft ==
    [RawDraft(PromptForest, << >>, 2, << >>) EXCEPT !.choices_type = "null"]

\* "prompt": 42
NumberPromptDraft ==
    [RawDraft(<<"4","2">>, ChoicesPercent, 2, << >>) EXCEPT !.prompt_type = "int"]

\* a draft with numbers in its three text fields
TextDraft ==
    [RawDraft(PromptForest, ChoicesDecimalPercent, 0,
              <<"I","t"," ","i","s"," ","7","2","%"," ","o","r"," ","7","1",".","4","%",","," ","n","o","t"," ","1","2","%"," ","o","r"," ","9","5",".","5","%",";"," ","7","0"," ","o","f"," ","1","0","0",".">>)
       EXCEPT !.surprising_fact = <<"U","p"," ","1",",","0","7","0","%"," ","t","o"," ","7","2",".","%"," ","(","-","8","0","%"," ","a","n","d"," ","5",".","6","0",".","5","%"," ","t","o","o",")">>,
              !.did_you_know = <<"7","1",".","2","5","%">>]

\* the raw drafts a response is made of
RawDrafts ==
    {RawDraft(p, c, i, e) : p \in Prompts, c \in ChoiceLists, i \in 0..4, e \in Explanations}
    \cup {[RawDraft(p, ChoicesPercent, 2, << >>) EXCEPT !.ci_type = t] :
            p \in Prompts, t \in {"str", "none"}}
    \cup {[RawDraft(p, ChoicesPercent, i, << >>) EXCEPT !.ci_type = "bool"] :
            p \in Prompts, i \in {0, 1}}
    \cup {[RawDraft(PromptForest, ChoicesPercent, 2, << >>) EXCEPT !.has = AllFields \ {f}] :
            f \in AllFields}
    \cup {NullChoicesDraft, NumberPromptDraft, TextDraft,
          [TextDraft EXCEPT !.has = AllFields \ {"surprising_fact"}],
          [TextDraft EXCEPT !.choices = ChoicesWords],
          [TextDraft EXCEPT !.choices = <<<<"a","b","o","u","t"," ","7","0",".","6","%">>, <<"7","1",".","2","%">>, <<"8","0","%">>, <<"9","0","%">>>>]}

MismatchDraft == RawDraft(PromptForest, ChoicesPlain, 2, << >>)

\* what the API call and json.loads give
ApiError == [kind |-> "api_error", questions |-> << >>]

BadJson == [kind |-> "bad_json", questions |-> << >>]

Questions(questions) == [kind |-> "ok", questions |-> questions]

\* ------------------------------------------------------ the state

VARIABLES
    country,    \* Country.name of the country row the quiz requests are for
    client,     \* whether AIQuestionGenerator.client is an OpenAI client
    pool,       \* country.questions.all(): the stored Question rows, in id order
    last,       \* what the last quiz request did
    ai,         \* the last call of AIQuestionGenerator.generate_questions
    tc,         \* a call of _generate_plausible_choices in progress
    reqs,       \* the quiz requests that run side by side, each one's position
    ex,         \* a call of AIQuestionGenerator._extract_metrics
    social      \* the FriendRequest and Friendship rows

vars == <<country, client, pool, last, ai, tc, reqs, ex, social>>

NoRequest == [kind |-> "none"]

AiIdle == [phase |-> "idle"]

TcIdle == [phase |-> "idle"]

\* ------------------------------------------------ quiz requests (Spec)

MaxSeed == 1

MaxDbFail == 3

\* the turns of the while loop of _generate_plausible_choices that are counted
MaxTurns == 3

\* the API responses of the quiz requests
Responses == {ApiError, BadJson, Questions(<< >>),
              Questions(<<GoodDraft, RawDraft(PromptGdp, ChoicesPlain, 0, << >>)>>),
              Questions(<<MismatchDraft>>)}

Init ==
    /\ country \in Countries
    /\ client \in BOOLEAN
    /\ pool \in {ManualPool(n) : n \in InitPoolSizes}
    /\ last = NoRequest
    /\ ai = AiIdle
    /\ tc = TcIdle
    /\ reqs = << >>
    /\ ex = [phase |-> "idle"]
    /\ social = [phase |-> "idle"]

\* GET /api/quiz/<code>/ for the country row: get_quiz, and in it
\* get_questions_for_country and generate_for_country with the calls it
\* makes.  The environment decides response (what the API returns if it is
\* called), seed (the state of the random generator) and db_fail (which of
\* the round's INSERTs fails, 0 for none).
QuizRequest ==
    \E country_data \in {ResolveCountryData(Dataset, country)} :
    \E fallback \in
         {[seed \in 0..MaxSeed |->
             IF Generates(pool, country_data)
             THEN TemplateGenerateQuestions(Dataset, country,
                                            QUESTIONS_POOL_SIZE - Len(pool), seed)
             ELSE << >>]} :
    \E response \in Responses :
    \E outcome \in
         {IF Generates(pool, country_data)
          THEN BackendOutcome(client, country_data.data, response)
          ELSE "none"} :
    \E ai_questions \in
         {IF Generates(pool, country_data)
          THEN GenerateQuestions(client, country_data.data,
                                 QUESTIONS_POOL_SIZE - Len(pool), response)
          ELSE << >>} :
    \E seed \in 0..MaxSeed :
    \E template_questions \in {IF ai_questions = << >> THEN fallback[seed] ELSE << >>} :
    \E db_fail \in 0..Min(MaxDbFail, InsertsOf(ai_questions, template_questions)) :
    \E r \in {GenerateForCountry(pool, country_data, ai_questions, template_questions,
                                 seed, db_fail)} :
    \E entry \in {GetQuestionsForCountry(TRUE, r.questions)} :
        /\ pool' = r.pool
        /\ last' = [r EXCEPT !.error = entry.error,
                             !.status = GetQuiz(entry.questions, entry.error),
                             !.backend = outcome]
        /\ UNCHANGED <<country, client, ai, tc, reqs, ex, social>>

\* GET /api/quiz/<code>/ with a code that no Country row has
UnknownCountryRequest ==
    \E entry \in {GetQuestionsForCountry(FALSE, << >>)} :
        /\ last' = [kind |-> "unknown", questions |-> entry.questions,
                    error |-> entry.error,
                    status |-> GetQuiz(entry.questions, entry.error)]
        /\ UNCHANGED <<country, client, pool, ai, tc, reqs, ex, social>>

Next == QuizRequest \/ UnknownCountryRequest

Spec == Init /\ [][Next]_vars

\* ------------------------- one call of generate_questions (SpecAI)

\* responses of several drafts
Batches == {<<GoodDraft, MismatchDraft, RawDraft(PromptGdp, ChoicesPlain, 0, << >>)>>,
            <<RawDraft(PromptCapital, ChoicesThree, 0, << >>), GoodDraft>>,
            <<GoodDraft, GoodDraft>>,
            <<GoodDraft, NullChoicesDraft>>,
            <<RawDraft(PromptCapital, ChoicesOdd, 0, << >>),
              RawDraft(PromptCapital, ChoicesHalves, 0, << >>),
              RawDraft(PromptCapital, ChoicesWords, 0, << >>),
              RawDraft(PromptCapital, ChoicesDollar, 0, << >>)>>,
            <<NumberPromptDraft, GoodDraft>>,
            <<[GoodDraft EXCEPT !.has = AllFields \ {"prompt"}],
              RawDraft(PromptForest, ChoicesRepeated, 2, << >>),
              RawDraft(PromptForest, ChoicesPercent, 4, << >>),
              [GoodDraft EXCEPT !.ci_type = "str"],
              GoodDraft>>}

AiResponses == {ApiError, BadJson, Questions(<< >>)}
               \cup {Questions(<<q>>) : q \in RawDrafts}
               \cup {Questions(b) : b \in Batches}

InitAI ==
    /\ country \in {<<"B","h","u","t","a","n">>, <<"N","a","u","r","u">>}
    /\ client \in BOOLEAN
    /\ pool = << >>
    /\ last = NoRequest
    /\ ai = AiIdle
    /\ tc = TcIdle
    /\ reqs = << >>
    /\ ex = [phase |-> "idle"]
    /\ social = [phase |-> "idle"]

\* AIQuestionGenerator.generate_questions(country, country_data, count) on the
\* country's dataset entry; ai keeps the response, the extracted metrics,
\* what each stage of the loop made of each draft (trace) and the returned
\* list (out)
AiGenerate ==
    /\ ai.phase = "idle"
    /\ \E response \in AiResponses :
       \E country_data \in {GetCountryData(Dataset, country).data} :
       \E metrics \in {ExtractMetrics(country_data)} :
       \E out \in {GenerateQuestions(client, country_data, QUESTIONS_POOL_SIZE, response)} :
          ai' = [phase |-> "done",
                 response |-> response,
                 metrics |-> metrics,
                 trace |-> IF client /\ metrics # << >> /\ response.kind = "ok"
                           THEN Eager([i \in 1..Len(response.questions) |->
                                         ProcessDraft(response.questions[i], metrics)])
                           ELSE << >>,
                 out |-> out]
    /\ UNCHANGED <<country, client, pool, last, tc, reqs, ex, social>>

NextAI == AiGenerate

SpecAI == InitAI /\ [][NextAI]_vars

\* ------------- one call of _generate_plausible_choices (SpecChoices)

\* the calls: a true value and the metric of the catalog it belongs to
ChoiceCalls == {
    [correct_value |-> Num(4, 0), metric_key |-> <<"p","o","p","u","l","a","t","i","o","n","_","d","e","n","s","i","t","y","_","p","e","r","_","s","q","u","a","r","e","_","k","m">>],
    [correct_value |-> Num(12, 0), metric_key |-> <<"c","e","l","l","_","p","h","o","n","e","s","_","p","e","r","_","1","0","0","_","p","e","o","p","l","e">>],
    [correct_value |-> Num(2300, 0), metric_key |-> <<"g","d","p","p","e","r","c","a","p","i","t","a","_","u","s","_","i","n","f","l","a","t","i","o","n","_","a","d","j","u","s","t","e","d">>],
    [correct_value |-> Num(70, 10), metric_key |-> <<"l","i","f","e","_","e","x","p","e","c","t","a","n","c","y","_","m","a","l","e">>],
    [correct_value |-> Num(0, 40), metric_key |-> <<"m","e","d","i","c","a","l","_","d","o","c","t","o","r","s","_","p","e","r","_","1","0","0","0","_","p","e","o","p","l","e">>],
    [correct_value |-> Num(1, 25), metric_key |-> <<"p","u","m","p","_","p","r","i","c","e","_","f","o","r","_","g","a","s","o","l","i","n","e","_","u","s","_","p","e","r","_","l","i","t","e","r">>],
    [correct_value |-> Num(0, 0), metric_key |-> <<"m","u","r","d","e","r","_","p","e","r","_","1","0","0","0","0","0","_","p","e","o","p","l","e">>],
    [correct_value |-> Num(0, 32), metric_key |-> <<"m","e","d","i","c","a","l","_","d","o","c","t","o","r","s","_","p","e","r","_","1","0","0","0","_","p","e","o","p","l","e">>],
    [correct_value |-> Num(0, 15), metric_key |-> <<"m","e","d","i","c","a","l","_","d","o","c","t","o","r","s","_","p","e","r","_","1","0","0","0","_","p","e","o","p","l","e">>],
    [correct_value |-> 0 - Num(1, 50), metric_key |-> <<"c","o","2","_","e","m","i","s","s","i","o","n","s","_","t","o","n","n","e","s","_","p","e","r","_","p","e","r","s","o","n">>]
  }

\* values random.uniform(0.5, 1.5) can give, in hundredths
UniformValues == Range(UniformFactors)

InitChoices ==
    /\ country = <<"B","h","u","t","a","n">>
    /\ client = FALSE
    /\ pool = << >>
    /\ last = NoRequest
    /\ ai = AiIdle
    /\ tc \in {[phase |-> "sample", correct_value |-> c.correct_value,
                metric_info |-> TemplateMetric(c.metric_key), count |-> 4,
                wrong_values |-> << >>, turns |-> 0,
                all_values |-> << >>, choices |-> << >>, correct_index |-> 0] :
                  c \in ChoiceCalls}
    /\ reqs = << >>
    /\ ex = [phase |-> "idle"]
    /\ social = [phase |-> "idle"]

\* lines 248-264: the variations and random.sample
TcSample ==
    /\ tc.phase = "sample"
    /\ \E variations \in {Variations(tc.correct_value)} :
       \E picks \in SamplePicks(Len(variations), Min(tc.count - 1, Len(variations))) :
          tc' = [tc EXCEPT !.phase = "loop",
                           !.wrong_values = Eager([i \in 1..Len(picks) |->
                                                     variations[picks[i]]])]
    /\ UNCHANGED <<country, client, pool, last, ai, reqs, ex, social>>

\* lines 267-270: one turn of the while loop
TcTopUp ==
    /\ tc.phase = "loop"
    /\ Len(tc.wrong_values) < tc.count - 1
    /\ \E factor \in UniformValues :
          tc' = [tc EXCEPT !.wrong_values = TopUpStep(tc.wrong_values, tc.correct_value,
                                                      factor),
                           !.turns = Min(tc.turns + 1, MaxTurns)]
    /\ UNCHANGED <<country, client, pool, last, ai, reqs, ex, social>>

\* lines 272-289: the loop is left; shuffle, format, index, return
TcReturn ==
    /\ tc.phase = "loop"
    /\ ~(Len(tc.wrong_values) < tc.count - 1)
    /\ \E order \in ShuffleOrders(tc.count) :
       \E r \in {ShuffleAndFormat(tc.wrong_values, tc.correct_value, tc.metric_info,
                                  tc.count, order)} :
          tc' = [tc EXCEPT !.phase = "returned", !.all_values = r.all_values,
                           !.choices = r.choices,
                           !.correct_index = r.correct_index]
    /\ UNCHANGED <<country, client, pool, last, ai, reqs, ex, social>>

NextChoices == TcSample \/ TcTopUp \/ TcReturn

SpecChoices == InitChoices /\ [][NextChoices]_vars

\* The call keeps running: each step that can be taken is taken in the end.
\* Under WF_vars(TcTopUp) a loop that some factor of random.uniform can end
\* is ended: a turn that leaves wrong_values as it was is, once the counted
\* turns are used up, no step.
SpecChoicesLive ==
    /\ InitChoices
    /\ [][NextChoices]_vars
    /\ WF_vars(TcSample) /\ WF_vars(TcTopUp) /\ WF_vars(TcReturn)

\* ------------- quiz requests side by side (SpecConcurrent)

\* the requests that run side by side
MaxRequests == 2

\* the sizes of the pool the requests find
ConcurrentPoolSizes == {6, 8, 9}

InitConcurrent ==
    /\ country \in {<<"B","h","u","t","a","n">>, <<"I","v","o","r","y"," ","C","o","a","s","t">>}
    /\ client \in BOOLEAN
    /\ pool \in {ManualPool(n) : n \in ConcurrentPoolSizes}
    /\ last = NoRequest
    /\ ai = AiIdle
    /\ tc = TcIdle
    /\ reqs = [p \in 1..MaxRequests |-> [phase |-> "start"]]
    /\ ex = [phase |-> "idle"]
    /\ social = [phase |-> "idle"]

\* generate_for_country, line 190: the request reads the stored rows
ReqRead(p) ==
    /\ reqs[p].phase = "start"
    /\ reqs' = [reqs EXCEPT ![p] = [phase |-> "read", all_cached |-> pool]]
    /\ UNCHANGED <<country, client, pool, last, ai, tc, ex, social>>

\* generate_for_country, lines 191-269, on the rows the request read: its
\* INSERTs become visible when its transaction commits, the database giving
\* each row the id after the rows stored by then.  stale tells that the pool
\* had grown between the request's read and its commit.
ReqFinish(p) ==
    /\ reqs[p].phase = "read"
    /\ \E all_cached \in {reqs[p].all_cached} :
       \E country_data \in {ResolveCountryData(Dataset, country)} :
       \E response \in Responses :
       \E ai_questions \in
            {IF Generates(all_cached, country_data)
             THEN GenerateQuestions(client, country_data.data,
                                    QUESTIONS_POOL_SIZE - Len(all_cached), response)
             ELSE << >>} :
       \E seed \in 0..MaxSeed :
       \E template_questions \in
            {IF Generates(all_cached, country_data) /\ ai_questions = << >>
             THEN TemplateGenerateQuestions(Dataset, country,
                                            QUESTIONS_POOL_SIZE - Len(all_cached), seed)
             ELSE << >>} :
       \E r \in {GenerateForCountry(all_cached, country_data, ai_questions,
                                    template_questions, seed, 0)} :
          /\ pool' = pool \o [i \in 1..Len(r.new_questions) |->
                                [r.new_questions[i] EXCEPT !.id = Len(pool) + i]]
          /\ reqs' = [reqs EXCEPT ![p] = [phase |-> "done",
                                          cached |-> r.cached,
                                          needed |-> r.needed,
                                          appended |-> Len(r.new_questions),
                                          returned |-> Len(r.questions),
                                          stale |-> Len(pool) # Len(all_cached)]]
    /\ UNCHANGED <<country, client, last, ai, tc, ex, social>>

NextConcurrent == \E p \in 1..MaxRequests : ReqRead(p) \/ ReqFinish(p)

SpecConcurrent == InitConcurrent /\ [][NextConcurrent]_vars

\* ------------------------------------- metric extraction (SpecExtract)

\* the years a dataset metric is dated: none (0), the two sides of the
\* 15-year limit, the current year and the year after it
MetricYears == {0, CurrentYear - 16, CurrentYear - 15, CurrentYear, CurrentYear + 1}

\* the forms a metric takes in a JSON file: {value: float, year: int},
\* a null or string value, a string year, no "value" key, a bare number
MetricForms(key) ==
    {Metric(key, Num(61, 50), year) : year \in MetricYears}
    \cup {[Metric(key, Num(61, 50), year) EXCEPT !.has_value = has_value, !.is_dict = is_dict] :
            year \in {CurrentYear}, has_value \in BOOLEAN, is_dict \in BOOLEAN}
    \cup {[Metric(key, 0, year) EXCEPT !.value_type = value_type] :
            year \in {CurrentYear - 16, CurrentYear}, value_type \in {"null", "str"}}
    \cup {[Metric(key, Num(61, 50), CurrentYear) EXCEPT !.year_type = "str"]}

\* the keys of the second metric: in the allow-list, not in it, and the key
\* of the first one again
ExtractKeys == {<<"f","o","r","e","s","t","_","c","o","v","e","r","a","g","e","_","p","e","r","c","e","n","t">>, <<"n","u","m","b","e","r","_","o","f","_","v","o","l","c","a","n","o","e","s">>, <<"l","i","f","e","_","e","x","p","e","c","t","a","n","c","y","_","f","e","m","a","l","e">>}

ExtractInputs ==
    {<<[name |-> <<"H","e","a","l","t","h">>, metrics |-> <<first>>],
       [name |-> <<"E","n","v","i","r","o","n","m","e","n","t">>, metrics |-> <<second>>]>> :
        first \in MetricForms(<<"l","i","f","e","_","e","x","p","e","c","t","a","n","c","y","_","f","e","m","a","l","e">>),
        second \in UNION {MetricForms(key) : key \in ExtractKeys}}

InitExtract ==
    /\ country = <<"B","h","u","t","a","n">>
    /\ client = FALSE
    /\ pool = << >>
    /\ last = NoRequest
    /\ ai = AiIdle
    /\ tc = TcIdle
    /\ reqs = << >>
    /\ ex \in {[phase |-> "start", country_data |-> d] : d \in ExtractInputs}
    /\ social = [phase |-> "idle"]

\* AIQuestionGenerator._extract_metrics(country_data)
Extract ==
    /\ ex.phase = "start"
    /\ \E raised \in {ExtractMetricsRaises(ex.country_data)} :
          ex' = [phase |-> "done", country_data |-> ex.country_data,
                 raised |-> raised,
                 metrics |-> IF raised THEN << >> ELSE ExtractMetrics(ex.country_data)]
    /\ UNCHANGED <<country, client, pool, last, ai, tc, reqs, social>>

NextExtract == Extract

SpecExtract == InitExtract /\ [][NextExtract]_vars

\* ------------------- requests one after another, no backend (SpecRounds)

\* countries whose dataset entry is keyed under the Country row's name
RoundCountries == {<<"B","h","u","t","a","n">>, <<"N","a","u","r","u">>, <<"N","i","g","e","r">>}

InitRounds ==
    /\ country \in RoundCountries
    /\ client = FALSE
    /\ pool \in {ManualPool(n) : n \in InitPoolSizes}
    /\ last = NoRequest
    /\ ai = AiIdle
    /\ tc = TcIdle
    /\ reqs = << >>
    /\ ex = [phase |-> "idle"]
    /\ social = [phase |-> "idle"]

\* get_quiz for the country row on the stored pool all_cached, with no OpenAI
\* client (generate_questions returns [] at once) and no database error:
\* what the request leaves as pool and what it did.  A request whose fallback
\* round enters a while loop of _generate_plausible_choices that no factor
\* ends never returns (kind "hung").
RoundOutcome(all_cached, country_name, seed) ==
    Bind(ResolveCountryData(Dataset, country_name), LAMBDA country_data :
    Bind(IF Generates(all_cached, country_data)
         THEN TemplateGenerateQuestions(Dataset, country_name,
                                        QUESTIONS_POOL_SIZE - Len(all_cached), seed)
         ELSE << >>, LAMBDA made :
    IF \E i \in 1..Len(made) : ~made[i].done
    THEN [pool |-> all_cached, last |-> [kind |-> "hung"]]
    ELSE
    Bind(GenerateForCountry(all_cached, country_data, << >>, made, seed, 0), LAMBDA r :
    Bind(GetQuestionsForCountry(TRUE, r.questions), LAMBDA entry :
        [pool |-> r.pool,
         last |-> [r EXCEPT !.error = entry.error,
                            !.status = GetQuiz(entry.questions, entry.error),
                            !.backend = "no_client"]]))))

\* GET /api/quiz/<code>/ after the request before it has returned; no
\* request follows one that never returns
RoundRequest ==
    /\ last.kind # "hung"
    /\ \E seed \in 0..MaxSeed :
       \E outcome \in {RoundOutcome(pool, country, seed)} :
           /\ pool' = outcome.pool
           /\ last' = outcome.last
    /\ UNCHANGED <<country, client, ai, tc, reqs, ex, social>>

NextRounds == RoundRequest

\* a client keeps asking: a request that can be made is made in the end
SpecRounds == InitRounds /\ [][NextRounds]_vars /\ WF_vars(RoundRequest)

\* ------------------------------- friends (views.py, SpecSocial)

\* the User rows
Users == {"ann", "bob", "cy"}

\* what a request names as the other user: a User row, or none
Targets == Users \cup {"nobody"}

\* FriendRequest: uniq_friend_request_pair gives at most one row per
\* (from_user, to_user), no_self_friend_request none with from_user = to_user;
\* requests maps the pair to the row's status, "none" if there is no row.
\* Friendship: the set of rows (user, friend).
RequestPairs == {p \in Users \X Users : p[1] # p[2]}

NoFriends ==
    [phase |-> "run", requests |-> [p \in RequestPairs |-> "none"], friendships |-> {},
     op |-> "none", result |-> "none"]

\* what a view answers and leaves, given the rows it found
Answer(s, op, result) == [s EXCEPT !.op = op, !.result = result]

\* send_friend_request by user for target
SendFriendRequest(s, user, target) ==
    IF target \notin Users THEN Answer(s, "send", "User not found.")
    ELSE IF target = user THEN Answer(s, "send", "You cannot add yourself.")
    ELSE IF <<user, target>> \in s.friendships
    THEN Answer(s, "send", "You are already friends.")
    ELSE IF s.requests[<<user, target>>] # "none"
    THEN (IF s.requests[<<user, target>>] = "pending"
          THEN Answer(s, "send", "Friend request already sent.")
          ELSE Answer([s EXCEPT !.requests[<<user, target>>] = "pending"],
                      "send", "ok"))
    ELSE IF s.requests[<<target, user>>] = "pending"
    THEN Answer([s EXCEPT !.requests[<<target, user>>] = "accepted",
                          !.friendships = @ \cup {<<user, target>>, <<target, user>>}],
                "send", "friends")
    ELSE Answer([s EXCEPT !.requests[<<user, target>>] = "pending"],
                "send", "ok")

\* AcceptFriendRequest that stores the row of the accepting user only
AcceptFriendRequestOneRow(s, user, from_user) ==
    IF from_user \notin Users \ {user} \/ s.requests[<<from_user, user>>] # "pending"
    THEN Answer(s, "accept", "Friend request not found.")
    ELSE Answer([s EXCEPT !.requests[<<from_user, user>>] = "accepted",
                          !.friendships = @ \cup {<<user, from_user>>}],
                "accept", "ok")

\* accept_friend_request by user for the request of from_user to them
AcceptFriendRequest(s, user, from_user) ==
    IF from_user \notin Users \ {user} \/ s.requests[<<from_user, user>>] # "pending"
    THEN Answer(s, "accept", "Friend request not found.")
    ELSE Answer([s EXCEPT !.requests[<<from_user, user>>] = "accepted",
                          !.friendships = @ \cup {<<user, from_user>>, <<from_user, user>>}],
                "accept", "ok")

\* decline_friend_request by user for the request of from_user to them
DeclineFriendRequest(s, user, from_user) ==
    IF from_user \notin Users \ {user} \/ s.requests[<<from_user, user>>] # "pending"
    THEN Answer(s, "decline", "Friend request not found.")
    ELSE Answer([s EXCEPT !.requests[<<from_user, user>>] = "declined"],
                "decline", "ok")

\* cancel_friend_request by user for their request to to_user
CancelFriendRequest(s, user, to_user) ==
    IF to_user \notin Users \ {user} \/ s.requests[<<user, to_user>>] # "pending"
    THEN Answer(s, "cancel", "Friend request not found.")
    ELSE Answer([s EXCEPT !.requests[<<user, to_user>>] = "none"],
                "cancel", "ok")

\* remove_friend by user for user_id
RemoveFriend(s, user, user_id) ==
    IF user_id = user THEN Answer(s, "remove", "You cannot remove yourself.")
    ELSE IF s.friendships \cap {<<user, user_id>>, <<user_id, user>>} = {}
    THEN Answer(s, "remove", "Friend not found.")
    ELSE Answer([s EXCEPT !.friendships = @ \ {<<user, user_id>>, <<user_id, user>>}],
                "remove", "ok")

InitSocial ==
    /\ country = <<"B","h","u","t","a","n">>
    /\ client = FALSE
    /\ pool = << >>
    /\ last = NoRequest
    /\ ai = AiIdle
    /\ tc = TcIdle
    /\ reqs = << >>
    /\ ex = [phase |-> "idle"]
    /\ social = NoFriends

Send(user, target) ==
    /\ social' = SendFriendRequest(social, user, target)
    /\ UNCHANGED <<country, client, pool, last, ai, tc, reqs, ex>>

Accept(user, from_user) ==
    /\ social' = AcceptFriendRequest(social, user, from_user)
    /\ UNCHANGED <<country, client, pool, last, ai, tc, reqs, ex>>

Decline(user, from_user) ==
    /\ social' = DeclineFriendRequest(social, user, from_user)
    /\ UNCHANGED <<country, client, pool, last, ai, tc, reqs, ex>>

Cancel(user, to_user) ==
    /\ social' = CancelFriendRequest(social, user, to_user)
    /\ UNCHANGED <<country, client, pool, last, ai, tc, reqs, ex>>

Remove(user, user_id) ==
    /\ social' = RemoveFriend(social, user, user_id)
    /\ UNCHANGED <<country, client, pool, last, ai, tc, reqs, ex>>

\* the requests of the logged-in users, one at a time
NextSocial ==
    \E user \in Users : \E other \in Targets :
        \/ Send(user, other)
        \/ Accept(user, other)
        \/ Decline(user, other)
        \/ Cancel(user, other)
        \/ Remove(user, other)

SpecSocial == InitSocial /\ [][NextSocial]_vars

\* ============================================================ properties

\* the last quiz request was one for the country row
Requested == last.kind \notin {"none", "unknown"}

\* the rendered strings of a choice list are pairwise distinct
Distinct(choices) == Cardinality(Range(choices)) = Len(choices)

\* C1: every draft accepted into a country's pool, through the AI path or
\* through the fallback template path, has exactly 4 choices, pairwise
\* distinct as rendered strings.
C1_PoolChoicesDistinct ==
    \A i \in 1..Len(pool) :
        Len(pool[i].choices) = 4 /\ Distinct(pool[i].choices)

\* |value - actual| <= max(0.15 * actual, 2), both sides times 20
WithinTolerance(value, actual) == Abs(value - actual) * 20 <= Max(actual * 3, 40 * Unit)

\* the stages' results for the drafts of the response that are accepted
Accepted == SelectSeq(ai.trace, LAMBDA t : t.structural /\ t.fixed.ok)

\* the loop over the drafts of the response raised
Raised == \E i \in 1..Len(ai.trace) : ai.trace[i].raised

\* some choice of the draft parses as a number within tolerance of actual
SomeChoiceWithin(choices, actual) ==
    \E c \in 1..Len(choices) :
        /\ ExtractNumberFromText(choices[c]).ok
        /\ WithinTolerance(ExtractNumberFromText(choices[c]).val, actual)

\* C2: for every draft returned by generate_questions whose prompt matches an
\* extracted metric, the number parsed from choices[correct_index] is within
\* max(0.15 * actual, 2) of the metric's value; a matched draft with no choice
\* within that tolerance (or no choice that parses) is rejected and is not
\* among the returned drafts.
C2_CorrectChoiceWithinTolerance ==
    ai.phase = "done" =>
        /\ \A i \in 1..Len(ai.out) :
              \E m \in {FindMatchingMetric(ai.out[i].prompt, ai.metrics)} :
              \E v \in {ExtractNumberFromText(
                            ai.out[i].choices[ai.out[i].correct_index + 1])} :
                  m.ok => v.ok /\ WithinTolerance(v.val, m.value)
        /\ \A i \in 1..Len(ai.trace) :
              \E m \in {FindMatchingMetric(ai.trace[i].normalized.prompt, ai.metrics)} :
                  (/\ ai.trace[i].structural
                   /\ m.ok
                   /\ ~SomeChoiceWithin(ai.trace[i].normalized.choices, m.value))
                  => ~ai.trace[i].fixed.ok
        /\ ai.out = IF Raised THEN << >>
                    ELSE [i \in 1..Len(Accepted) |-> Accepted[i].fixed.q]

\* C2 witness: of a response of three matched drafts the one without a choice
\* within tolerance is rejected and the two others are returned
C2_Witness ==
    /\ ai.phase = "done"
    /\ client
    /\ ai.response = Questions(<<GoodDraft, MismatchDraft,
                                 RawDraft(PromptGdp, ChoicesPlain, 0, << >>)>>)
    /\ Len(ai.out) = 2
    /\ ~ai.trace[2].fixed.ok

\* C3: the choice set of the fallback choice synthesizer never holds two
\* options that render to the same formatted string.
C3_RenderedChoicesDistinct ==
    tc.phase = "returned" => Distinct(tc.choices)

C5_AppendOnly ==
    [][Len(pool') >= Len(pool) /\ SubSeq(pool', 1, Len(pool)) = pool]_vars

\* C5 witness: a request that found stored drafts and appended to them
C5_Witness ==
    /\ Requested
    /\ last.cached > 0
    /\ last.new_questions # << >>
    /\ last.committed
    /\ Len(pool) = last.cached + Len(last.new_questions)

C7_FallbackOnEmpty ==
    (Requested /\ last.kind = "generated")
        => /\ last.ai_returned = 0
                => /\ last.template_called
                   /\ \A i \in 1..Len(last.new_questions) :
                         last.new_questions[i].source = "dataset"
           /\ last.ai_returned > 0
                => /\ ~last.template_called
                   /\ \A i \in 1..Len(last.new_questions) :
                         last.new_questions[i].source = "ai"

\* C7 witness: the backend was called, returned nothing, and the round stored
\* fallback drafts
C7_Witness ==
    /\ Requested
    /\ client
    /\ last.kind = "generated"
    /\ last.ai_returned = 0
    /\ last.template_called
    /\ last.new_questions # << >>
    /\ pool = last.pool

\* the dataset has a non-empty entry under the name
InDataset(name) == \E i \in 1..Len(Dataset) : Dataset[i].name = name /\ Dataset[i].data # << >>

\* the alias table read as the claims read it: the variants listed for the
\* name, and for every entry that lists the name as a variant its standard
\* name and its variants
ListedVariants(name) ==
    UNION {Range(name_variants[i].variants) :
             i \in {j \in 1..Len(name_variants) : name_variants[j].name = name}}

ReverseVariants(name) ==
    UNION {{name_variants[i].name} \cup Range(name_variants[i].variants) :
             i \in {j \in 1..Len(name_variants) : InSeq(name, name_variants[j].variants)}}

\* no entry under the canonical name or any name variant (case variants
\* included)
Unresolvable(name) ==
    \A n \in {name, Title(name), Upper(name)} \cup ListedVariants(name)
             \cup ReverseVariants(name) : ~InDataset(n)

\* C8: if no dataset entry can be resolved for the country, the request
\* returns min(|cached|, QUIZ_SIZE) of the cached drafts with no error value,
\* calls neither the backend nor the fallback generator and leaves the pool
\* unchanged.
C8_UnresolvedReturnsCached ==
    (Requested /\ Unresolvable(country))
        => /\ last.kind \in {"unresolved", "full"}
           /\ Len(last.questions) = Min(last.cached, QUESTIONS_PER_QUIZ)
           /\ \A i \in 1..Len(last.questions) : InSeq(last.questions[i], pool)
           /\ last.error = "None"
           /\ ~last.ai_called
           /\ ~last.template_called
           /\ last.new_questions = << >>
           /\ Len(pool) = last.cached
           /\ pool = last.pool

\* C8 witness: an unresolvable country with cached drafts is served from them
C8_Witness ==
    /\ Requested
    /\ Unresolvable(country)
    /\ last.kind = "unresolved"
    /\ last.cached > QUESTIONS_PER_QUIZ
    /\ Len(last.questions) = QUESTIONS_PER_QUIZ

\* C9: resolution succeeds whenever the dataset holds an entry under the
\* country's own name, under a variant listed for it, or under the standard
\* name or a sibling variant of an entry that lists it; the round then works
\* on that entry, and for 'Ivory Coast' it is the one keyed 'Cote d'Ivoire',
\* from which the extractor yields a non-empty metrics map.
C9_ResolvesThroughAliases ==
    (/\ Requested
     /\ last.cached < QUESTIONS_POOL_SIZE
     /\ \E n \in {country} \cup ListedVariants(country) \cup ReverseVariants(country) :
            InDataset(n))
        => /\ last.kind = "generated"
           /\ last.resolved \in {country} \cup ListedVariants(country)
                                \cup ReverseVariants(country)
           /\ InDataset(last.resolved)
           /\ country = <<"I","v","o","r","y"," ","C","o","a","s","t">>
                => /\ last.resolved = <<"C","o","t","e"," ","d","'","I","v","o","i","r","e">>
                   /\ ExtractMetrics(GetCountryData(Dataset, last.resolved).data) # << >>

\* C9 witness: 'Ivory Coast' resolved to the entry keyed 'Cote d'Ivoire'
C9_Witness ==
    /\ Requested
    /\ country = <<"I","v","o","r","y"," ","C","o","a","s","t">>
    /\ last.kind = "generated"
    /\ last.resolved = <<"C","o","t","e"," ","d","'","I","v","o","i","r","e">>
    /\ ExtractMetrics(GetCountryData(Dataset, last.resolved).data) # << >>

\* the choice's parsed value is as near to actual as any choice's
Nearest(choices, c, actual) ==
    /\ ExtractNumberFromText(choices[c]).ok
    /\ \A d \in 1..Len(choices) :
          ExtractNumberFromText(choices[d]).ok
              => Abs(ExtractNumberFromText(choices[c]).val - actual)
                   <= Abs(ExtractNumberFromText(choices[d]).val - actual)

\* C10: for a draft matched to a metric with a choice within tolerance,
\* numeric validation sets correct_index to the index of the choice whose
\* parsed value is nearest to the actual value and leaves the prompt and the
\* choices as they were.
C10_RepairsCorrectIndex ==
    ai.phase = "done" =>
        \A i \in 1..Len(ai.trace) :
            \E t \in {ai.trace[i]} :
            \E m \in {FindMatchingMetric(t.normalized.prompt, ai.metrics)} :
                (t.structural /\ m.ok /\ SomeChoiceWithin(t.normalized.choices, m.value))
                => /\ t.fixed.ok
                   /\ t.fixed.q.correct_index \in 0..3
                   /\ Nearest(t.normalized.choices, t.fixed.q.correct_index + 1, m.value)
                   /\ t.fixed.q.prompt = t.normalized.prompt
                   /\ t.fixed.q.choices = t.normalized.choices

\* C10 witness: actual 2300, choices 1900, 2100, 2300, 2600 and supplied index
\* 0: the index is repaired to 2
C10_Witness ==
    /\ ai.phase = "done"
    /\ client
    /\ ai.response = Questions(<<RawDraft(PromptGdp, ChoicesPlain, 0, << >>)>>)
    /\ FindMatchingMetric(PromptGdp, ai.metrics).ok
    /\ FindMatchingMetric(PromptGdp, ai.metrics).value = Num(2300, 0)
    /\ Len(ai.out) = 1
    /\ ai.out[1].correct_index = 2
    /\ ai.out[1].choices = ChoicesPlain

\* C11: every quiz returned by a request holds exactly
\* min(totalAvailable, QUIZ_SIZE) drafts, totalAvailable being the cached
\* drafts plus the drafts newly accepted in the request; no draft appears
\* twice and every returned draft is in the country's pool after the request.
C11_QuizIsSampleOfPool ==
    Requested
        => /\ Len(last.questions)
                = Min(last.cached + Len(last.new_questions), QUESTIONS_PER_QUIZ)
           /\ Distinct(last.questions)
           /\ \A i \in 1..Len(last.questions) : InSeq(last.questions[i], pool)

\* the rows the pool holds beyond those the last request found
Appended == SubSeq(pool, last.cached + 1, Len(pool))

\* C12: a deficit-fill round is atomic with respect to the pool: after any
\* request, one with a failure part-way through the round included, the pool
\* holds either all of the round's newly accepted drafts or none of them.
C12_RoundIsAtomic ==
    (Requested /\ last.kind = "generated")
        => /\ SubSeq(pool, 1, last.cached) = SubSeq(last.pool, 1, last.cached)
           /\ Appended = last.new_questions \/ Appended = << >>
           /\ last.committed => Appended = last.new_questions
           /\ ~last.committed => Appended = << >>

\* C12 witness: a round whose third INSERT failed after two drafts had been
\* saved: none of them is in the pool
C12_Witness ==
    /\ Requested
    /\ last.kind = "generated"
    /\ ~last.committed
    /\ Len(last.new_questions) = 2
    /\ Len(pool) = last.cached

\* C13: when persisting one draft of a batch fails, only that draft is
\* dropped: the request does not fail, and every other draft of the batch
\* whose save succeeds is committed to the pool and eligible for the sample.
C13_FailedSaveDropsOnlyThatDraft ==
    (Requested /\ last.kind = "generated")
        => /\ last.error = "None"
           /\ Appended = last.new_questions
           /\ \A i \in 1..Len(last.questions) : InSeq(last.questions[i], pool)

\* C14: an error reaches the end caller (an error string with the not-found
\* status) only when the country identifier is unknown or no dataset entry
\* can be resolved; a round that resolved its dataset entry never produces
\* one, whatever failed in it.
C14_ErrorOnlyForUnknownOrUnresolved ==
    /\ (last.kind # "none" /\ (last.error # "None" \/ last.status = 404))
          => last.kind \in {"unknown", "unresolved"}
    /\ (Requested /\ last.kind = "generated")
          => last.error = "None" /\ last.status # 404

\* the returns of generate_questions that the claims call backend failures
BackendFailures == {"no_client", "no_metrics", "api_error", "bad_json"}

\* C15: for a missing client, an API error, an unparseable body and an empty
\* metrics map generate_questions returns an empty list; the pool manager goes
\* on to the fallback generator and reports no error.
C15_BackendFailureIsEmptyList ==
    (Requested /\ last.kind = "generated" /\ last.backend \in BackendFailures)
        => /\ last.ai_called
           /\ last.ai_returned = 0
           /\ last.template_called
           /\ last.error = "None"

\* C15 witness: a configured client on an entry without usable metrics: the
\* backend returned nothing and the fallback was called
C15_Witness ==
    /\ Requested
    /\ client
    /\ last.kind = "generated"
    /\ last.backend = "no_metrics"
    /\ last.ai_returned = 0
    /\ last.template_called

\* C16: without mutual exclusion two interleaved requests for a country can
\* both read the same pool size, compute the same deficit and both append
\* their drafts: the pool then holds more than POOL_SIZE drafts.  The pool
\* exceeds POOL_SIZE only in that way: some request committed onto a pool that
\* had grown since it read it, and a request that runs alone appends no more
\* than its deficit.
C16_OverfillOnlyWhenInterleaved ==
    /\ \A p \in 1..Len(reqs) :
          reqs[p].phase = "done" => reqs[p].appended <= Max(reqs[p].needed, 0)
    /\ Len(pool) > QUESTIONS_POOL_SIZE
          => \E p \in 1..Len(reqs) : reqs[p].phase = "done" /\ reqs[p].stale

\* C16 witness: two requests read the same pool, both appended, and the pool
\* holds more than POOL_SIZE drafts
C16_Witness ==
    /\ Len(pool) > QUESTIONS_POOL_SIZE
    /\ \E p, q \in 1..Len(reqs) :
          /\ p # q
          /\ reqs[p].phase = "done" /\ reqs[q].phase = "done"
          /\ reqs[p].cached = reqs[q].cached
          /\ reqs[p].needed = reqs[q].needed
          /\ reqs[p].appended > 0 /\ reqs[q].appended > 0

\* C17: malformed drafts are dropped one by one: of a response that mixes
\* well-formed drafts with malformed ones (a missing field, a wrong choice
\* count, a correct_index that is no integer or out of range, duplicate
\* choices, a field of the wrong type), every well-formed draft that passes
\* numeric validation is returned by the round.
C17_MalformedDraftsDroppedAlone ==
    ai.phase = "done"
        => /\ \A i \in 1..Len(ai.trace) :
                 (ai.trace[i].structural /\ ai.trace[i].fixed.ok)
                     => InSeq(ai.trace[i].fixed.q, ai.out)
           /\ ai.out = [i \in 1..Len(Accepted) |-> Accepted[i].fixed.q]

\* what C18 asks of a raw draft: prompt, choices and correct_index present,
\* exactly 4 choices, pairwise distinct as trimmed strings, correct_index an
\* integer in [0,3] (a JSON true or false arrives as a Python bool, which is
\* an int of value 1 or 0)
WellFormed(q) ==
    /\ {"prompt", "choices", "correct_index"} \subseteq q.has
    /\ q.choices_type = "list"
    /\ Len(q.choices) = 4
    /\ \A i, j \in 1..Len(q.choices) : i # j => Strip(q.choices[i]) # Strip(q.choices[j])
    /\ q.ci_type \in {"int", "bool"}
    /\ q.correct_index \in 0..3

RECURSIVE PercentTokens(_, _)
PercentTokens(text, i) ==
    LET starts == {j \in i..Len(text) : PercentNumberAt(text, j) > 0}
    IN  IF starts = {} THEN << >>
        ELSE LET j == Least(starts)
                 len == PercentNumberAt(text, j)
             IN  <<[at |-> j, len |-> len]>> \o PercentTokens(text, j + len)

TokenText(text, tok) == SubSeq(text, tok.at, tok.at + tok.len - 1)

\* the text before the k-th token, after the token before it
GapBefore(text, toks, k) ==
    SubSeq(text, IF k = 1 THEN 1 ELSE toks[k - 1].at + toks[k - 1].len,
           IF k > Len(toks) THEN Len(text) ELSE toks[k].at - 1)

\* the value of a token: digits, and digits after a decimal point if any
TokenValue(token) ==
    LET n1 == DigitRun(token, 1)
    IN  ParseFloat(SubSeq(token, 1, n1), SubSeq(token, n1 + 2, Len(token)))

\* within 20% of the actual value
CloseTo(value, actual) == Abs(value - actual) * 5 < actual

\* the corrected choice's value as the token is to show it
RenderLike(token, value) ==
    IF InSeq(".", token) THEN FormatOneDecimal(value)
    ELSE IntToStr(RoundHalfEven(value, Unit) \div Unit)

\* the text after is the text before with every number before a percent sign
\* that is close to actual showing value, and nothing else changed
Repaired(before, after, actual, value) ==
    LET tb == PercentTokens(before, 1)
        ta == PercentTokens(after, 1)
    IN  /\ Len(ta) = Len(tb)
        /\ \A k \in 1..Len(tb) + 1 : GapBefore(after, ta, k) = GapBefore(before, tb, k)
        /\ \A k \in 1..Len(tb) :
              TokenText(after, ta[k])
                = IF CloseTo(TokenValue(TokenText(before, tb[k])), actual)
                  THEN RenderLike(TokenText(before, tb[k]), value)
                  ELSE TokenText(before, tb[k])

ReadsAsNumber(choice) ==
    LET text == Strip(choice)
        p == IF text # << >> /\ text[1] \in {"$", "<EUR>", "<GBP>"} THEN 1 ELSE 0
    IN  Len(text) > p /\ IsDigit(text[p + 1])

\* the choice shows a whole number: after its currency sign come digits, and
\* after them no decimal point
ShowsWholeNumber(choice) ==
    LET p == IF choice # << >> /\ choice[1] \in {"$", "<EUR>", "<GBP>"} THEN 1 ELSE 0
        n == DigitRun(choice, p + 1)
    IN  n > 0 /\ (p + n = Len(choice) \/ choice[p + n + 1] # ".")

\* C20: choice normalization yields uniform precision or does nothing: if one
\* of the choices does not read as (currency sign, number, suffix) the choices
\* are returned as they were; otherwise every resulting choice shows its
\* number rounded to a whole number with its own prefix and suffix, so that no
\* result mixes decimal and whole-number choices.  Nothing else of the draft
\* changes.
C20_NormalizationUniformOrNoop ==
    ai.phase = "done" =>
        \A i \in 1..Len(ai.trace) :
            \E q \in {ai.response.questions[i]} :
            \E n \in {ai.trace[i].normalized} :
                ai.trace[i].structural
                => /\ n = [q EXCEPT !.choices = n.choices]
                   /\ Len(n.choices) = Len(q.choices)
                   /\ IF \E c \in 1..Len(q.choices) : ~ReadsAsNumber(q.choices[c])
                      THEN n.choices = q.choices
                      ELSE \A c \in 1..Len(q.choices) :
                              \E was \in {ParseChoice(Strip(q.choices[c]))} :
                              \E now \in {ParseChoice(n.choices[c])} :
                                 /\ ShowsWholeNumber(n.choices[c])
                                 /\ now.valid
                                 /\ now.prefix = was.prefix
                                 /\ now.suffix = was.suffix
                                 /\ now.num % Unit = 0
                                 /\ Abs(now.num - was.num) * 2 <= Unit

\* C20 witness: four drafts: odd suffixes, decimals next to whole numbers,
\* words, and dollar amounts with a thousands comma
C20_Witness ==
    /\ ai.phase = "done"
    /\ Len(ai.trace) = 4
    /\ ai.response.questions[1].choices = ChoicesOdd
    /\ ai.trace[1].normalized.choices = <<<<"2"," ",".","2">>, <<"2"," ","t","o"," ","3",".","5">>, <<"<EUR>","7">>, <<"<GBP>","0","%">>>>
    /\ ai.trace[2].normalized.choices = <<<<"4">>, <<"4">>, <<"8">>, <<"1","2">>>>
    /\ ai.trace[3].normalized.choices = ChoicesWords
    /\ ai.trace[4].normalized.choices
         = <<<<"$","1"," ",",","9","0","0">>, <<"$","2"," ",",","1","0","0">>, <<"$","2"," ",",","3","0","0">>, <<"$","2"," ",",","6","0","0">>>>


\* ------------------------------------------------ claims C21 to C30

\* the metrics of the entry, of all its categories
InputMetrics(country_data) ==
    UNION {{country_data[c].metrics[i] : i \in 1..Len(country_data[c].metrics)} :
             c \in 1..Len(country_data)}

AllowListed(key) == \E k \in 1..Len(INTERESTING_METRICS) : INTERESTING_METRICS[k] = key

RecentYear(year) == year = 0 \/ (year >= CurrentYear - 15 /\ year <= CurrentYear)

\* the returned entry is what the metric of the dataset gives
ComesFrom(entry, metric) ==
    /\ entry.name = DisplayName(metric.key)
    /\ entry.value = metric.value
    /\ entry.value_type = metric.value_type
    /\ entry.year = metric.year

ValueQuestions(questions) ==
    {i \in 1..Len(questions) : questions[i].source = "dataset" /\ questions[i].difficulty = 1}

\* C22: within one fallback round no metric is used for more than one value
\* question: the prompts of the round's value questions, each of which names
\* its metric, differ from one another.
C22_NoMetricTwiceInRound ==
    (Requested /\ last.kind = "generated" /\ last.template_called)
        => \A i, j \in ValueQuestions(last.new_questions) :
              i # j => last.new_questions[i].prompt # last.new_questions[j].prompt

\* C23: in what the fallback choice synthesis returns, correct_index is the
\* position of the true value after the shuffle: the values behind the
\* choices are the distractors and the true value in some order, the value at
\* correct_index is the true value and the choice there its rendering, and no
\* distractor has the true value.
C23_CorrectIndexFollowsShuffle ==
    tc.phase = "returned" =>
        /\ Len(tc.all_values) = tc.count /\ Len(tc.choices) = tc.count
        /\ \E order \in ShuffleOrders(tc.count) :
              tc.all_values = [i \in 1..tc.count |->
                                 (tc.wrong_values \o <<tc.correct_value>>)[order[i]]]
        /\ tc.correct_index \in 0..(tc.count - 1)
        /\ tc.all_values[tc.correct_index + 1] = tc.correct_value
        /\ tc.choices[tc.correct_index + 1] = FormatChoice(tc.correct_value, tc.metric_info)
        /\ \A i \in 1..Len(tc.wrong_values) : tc.wrong_values[i] # tc.correct_value
        /\ \A i \in 1..Len(tc.all_values) :
              tc.choices[i] = FormatChoice(tc.all_values[i], tc.metric_info)

\* C23 witness: a shuffle that put the true value first, after a top-up turn
C23_Witness ==
    /\ tc.phase = "returned"
    /\ tc.turns > 0
    /\ tc.correct_index = 0
    /\ tc.all_values[1] = tc.correct_value
    /\ tc.all_values[4] # tc.correct_value

\* C24: fallback choice synthesis terminates for every true value, 0, values
\* below 0.2 in magnitude and negative values included: every call returns in
\* the end, with 3 distractors and the true value.
C24_ChoiceSynthesisTerminates ==
    <>(tc.phase = "returned" /\ Len(tc.wrong_values) = 3 /\ Len(tc.choices) = 4)

\* the dataset entry the round resolved holds a metric of the template catalog
ResolvedHasTemplateMetric ==
    /\ InDataset(last.resolved)
    /\ AvailableMetrics(GetCountryData(Dataset, last.resolved).data) # << >>

\* C25: the fallback generator works on the entry the round resolved: when an
\* entry was resolved, under the country's own name or through an alias or
\* case variant, the backend returned nothing, the entry holds a template
\* metric and no database error undid the round, the round appends at least
\* one draft to the pool.
C25_FallbackUsesResolvedEntry ==
    (/\ Requested /\ last.kind = "generated"
     /\ last.ai_returned = 0
     /\ last.committed
     /\ ResolvedHasTemplateMetric)
        => Len(pool) >= last.cached + 1

\* what the last request of a sequence did to the pool: a round adds at
\* least 1 and at most min(deficit, 3) drafts, and a request on a full pool
\* calls neither generator and adds nothing
RoundBounds ==
    /\ last.kind = "generated"
         => /\ Len(pool) = last.cached + Len(last.new_questions)
            /\ Len(last.new_questions) >= 1
            /\ Len(last.new_questions) <= Min(last.needed, 3)
            /\ last.needed = QUESTIONS_POOL_SIZE - last.cached
    /\ last.kind = "full"
         => /\ ~last.ai_called /\ ~last.template_called
            /\ last.new_questions = << >>
            /\ Len(pool) = last.cached

PoolFull == Len(pool) = QUESTIONS_POOL_SIZE

C27_NoFallbackAfterFailedSaves ==
    (/\ Requested /\ last.kind = "generated"
     /\ last.ai_returned > 0
     /\ last.new_questions = << >>)
        => /\ ~last.template_called /\ last.template_returned = 0
           /\ Len(pool) = last.cached
           /\ Len(last.questions) = Min(last.cached, QUESTIONS_PER_QUIZ)
           /\ \A i \in 1..Len(last.questions) :
                 \E j \in 1..last.cached : last.questions[i] = pool[j]
           /\ \A i, j \in 1..Len(last.questions) :
                 i # j => last.questions[i].id # last.questions[j].id
           /\ last.error = "None"

\* C27 witness: two accepted drafts, neither stored, six rows stored before
C27_Witness ==
    /\ Requested /\ last.kind = "generated"
    /\ last.ai_returned = 2
    /\ last.new_questions = << >>
    /\ last.cached = 6
    /\ Len(pool) = 6
    /\ Len(last.questions) = QUESTIONS_PER_QUIZ
    /\ ~last.template_called

\* some choice of the draft, read as _extract_number_from_text reads it, is
\* within max(0.15 * actual, 2) of the actual value
Plausible(question, actual_value) ==
    \E c \in 1..Len(question.choices) :
        \E read \in {ExtractNumberFromText(question.choices[c])} :
            read.ok /\ ~ExceedsTolerance(Abs(read.val - actual_value), actual_value)

\* C28: choice normalization never turns a plausible draft into a rejected
\* one: a structurally valid draft matched to a metric, one of whose choices
\* as the backend gave them is within tolerance of the actual value, is still
\* accepted by numeric validation after its choices have been normalized.
C28_NormalizationKeepsPlausible ==
    ai.phase = "done"
        => \A i \in 1..Len(ai.trace) :
              \E question \in {ai.response.questions[i]} :
              \E metric_match \in {IF ai.trace[i].structural /\ ~ai.trace[i].raised
                                   THEN FindMatchingMetric(question.prompt, ai.metrics)
                                   ELSE NoMetric} :
                  (metric_match.ok /\ Plausible(question, metric_match.value))
                      => ai.trace[i].fixed.ok

Friends(a, b) == <<a, b>> \in social.friendships

\* C29: friendship is stored symmetrically: after any sequence of send,
\* accept, decline, cancel and remove requests a Friendship row (a, b) exists
\* if and only if the row (b, a) exists, and no row has user = friend.
C29_FriendshipSymmetric ==
    /\ \A a, b \in Users : Friends(a, b) <=> Friends(b, a)
    /\ \A a \in Users : ~Friends(a, a)
    /\ social.friendships \subseteq Users \X Users

\* C29 witness: bob has removed ann, with whom he was friends, and is still
\* friends with cy
C29_Witness ==
    /\ social.op = "remove" /\ social.result = "ok"
    /\ social.requests[<<"ann", "bob">>] = "accepted"
    /\ ~Friends("ann", "bob") /\ ~Friends("bob", "ann")
    /\ Friends("bob", "cy") /\ Friends("cy", "bob")

\* C30: after any sequence of send, accept, decline, cancel and remove
\* requests no pending friend request exists between two users who are
\* friends.
C30_NoPendingBetweenFriends ==
    \A p \in RequestPairs :
        Friends(p[1], p[2]) => social.requests[p] # "pending"
====
